---- MODULE Spec2Model ----
(***************************************************************************)
(* Model of the statistics client (src/unnamed/part_001, the complete      *)
(* client that starts at line 469): per-mode selection state, the          *)
(* rendered lists whose buttons carry the click handlers, the snapshot /   *)
(* range / statcast caches and the async handlers that fill them.          *)
(*                                                                         *)
(* One action is one run of a handler from an event (a click, a change, a  *)
(* fetch that settles) to the next point where it waits for a fetch: the   *)
(* event loop runs such a stretch without interleaving.                    *)
(***************************************************************************)
EXTENDS Integers, Sequences, FiniteSets, TLC

(***************************************************************************)
(* Program constants.                                                      *)
(***************************************************************************)
MAX_STATS == 10
MAX_SAVED_PLAYERS == 10
MAX_COMPARE_PLAYERS == 5
\* version: 1 of serializeState, payload.version !== 1 of loadPersistedState
STORAGE_VERSION == 1
\* qualifiedPlayers.length >= 25, sortedPlayers.slice(0, 25)
TOP_COUNT == 25
\* the literal of `Number(year) === 2025` in loadSnapshot / loadPitcherSnapshot
BUNDLED_YEAR == 2025
\* activePlayerId: null.  Player ids are positive; 0 is also the only number
\* that `!state.activePlayerId` treats like null.
NoPlayer == 0

Modes == {"hitters", "pitchers"}
OtherMode(mode) == IF mode = "hitters" THEN "pitchers" ELSE "hitters"

(***************************************************************************)
(* Bounds of the model.                                                    *)
(***************************************************************************)
\* players offered by search results and rosters, per specification
NumCapPlayers == 11
NumOrderPlayers == 3
NumSelPlayers == 2
NumPersistPlayers == 2
NumRestorePlayers == 1
\* stats the user ticks where the storage is looked at
NumPersistStats == 2
\* rows of a long run of like rows in a dataset of the board sessions
BigBlock == 25
\* runs of like rows in a dataset of the board sessions
MaxBlocks == 2
\* player ids of the rows that are merged
MaxMergeIds == 2
\* characters of a name that is scored
MaxNameLen == 4
\* characters of a query
MaxQueryLen == 2
\* entities of a long run of namesakes in a dataset that is searched
LongRun == 50
\* characters of a name that is searched for
MaxSearchLen == 3
\* characters of a string whose edit distance is taken
MaxEditLen == 3
\* stat definitions in each mode's catalog; the last one has available: false
NumStats == 12
\* seasons offered by the year select: BUNDLED_YEAR - YearSpan .. BUNDLED_YEAR
YearSpan == 1
\* handlers that can be suspended at a fetch at the same time
MaxTasks == 2
\* writes to the storage within one window are counted up to this number
MaxWritesCounted == 2

CatalogKeys == 1..NumStats
Years == (BUNDLED_YEAR - YearSpan)..BUNDLED_YEAR
TaskIds == 1..MaxTasks

\* item.available !== false
IsAvailable(key) == key # NumStats
\* statConfig.lower_is_better
LowerIsBetter(key) == key % 2 = 0
\* config.range_supported: stat 2 is the season-only stat of the catalog
RangeSupportedFlag(key) == key # 2

(***************************************************************************)
(* Sequences used as JavaScript arrays and insertion-ordered Sets.         *)
(***************************************************************************)
SeqRange(s) == {s[i] : i \in 1..Len(s)}
SeqHas(s, x) == \E i \in 1..Len(s) : s[i] = x
\* Set.prototype.add: appended unless already a member
SetAdd(s, x) == IF SeqHas(s, x) THEN s ELSE Append(s, x)
\* Set.prototype.delete / splice of the one matching entry: order is kept
SetDelete(s, x) == SelectSeq(s, LAMBDA y : y # x)
NoDuplicates(s) == \A i, j \in 1..Len(s) : i # j => s[i] # s[j]

VARIABLES
    activeMode,       \* let activeMode
    stateByMode,      \* const stateByMode
    savedPlayersEl,   \* players of the pills rendered by renderSelected
    statsEl,          \* checkboxes rendered by renderStatsConfig
    rangeEnabled,     \* rangeEnabledInput.checked
    rangeStart,       \* rangeStartInput.value
    rangeEnd,         \* rangeEndInput.value
    yearValue,        \* yearSelect.value
    localSnapshots,   \* LOCAL_SNAPSHOT_BASE is non-empty
    snapshotsByYear,
    pitcherSnapshotsByYear,
    activePlayers,
    activePitchers,
    activeMetaByMode,
    rangeCache,
    leaderboardStatcastCache,
    activeLeaderboardStat,
    leaderboardStateByMode,
    leaderboardOutput, \* what the leaderboard output element shows
    outputPlayer,     \* what the output element of the players tab shows
    outputCompare,    \* what the output element of the compare tab shows
    hasStorage,       \* chrome.storage.local exists
    storageAnswers,   \* how the storage of this session answers a call
    storage,          \* what chrome.storage.local holds under STORAGE_KEY
    persistTimer,     \* persistTimer holds a timer that has not fired yet
    writesInWindow,   \* calls of chrome.storage.local.set in the last 50 ms
    lastStorage,      \* the last access to chrome.storage.local and its end
    sourceStatus,     \* what each source answers for a season's snapshot
    seasonRows,       \* the rows each file of the sources holds
    callArgs,         \* the arguments of a function that is called on its own
    callResult,       \* the function called on callArgs last, and what it returned
    tasks             \* handlers suspended at a fetch

rangeVars == <<rangeEnabled, rangeStart, rangeEnd>>
selVars == <<activeMode, stateByMode, savedPlayersEl, statsEl, rangeVars>>
callVars == <<callArgs, callResult>>
envVars == <<localSnapshots, sourceStatus, seasonRows, callVars>>
snapVars == <<snapshotsByYear, pitcherSnapshotsByYear,
              activePlayers, activePitchers, activeMetaByMode>>
fetchVars == <<rangeCache, leaderboardStatcastCache>>
dataVars == <<yearValue, envVars, snapVars, fetchVars>>
lbVars == <<activeLeaderboardStat, leaderboardStateByMode, leaderboardOutput>>
outVars == <<outputPlayer, outputCompare>>
persistVars == <<hasStorage, storageAnswers, storage, persistTimer, writesInWindow,
                 lastStorage>>
vars == <<selVars, dataVars, lbVars, outVars, persistVars, tasks>>

(***************************************************************************)
(* stateByMode                                                             *)
(***************************************************************************)
EmptyModeState ==
    [savedPlayers |-> <<>>,
     activePlayerId |-> NoPlayer,
     activeCompareIds |-> <<>>,
     selectedStatKeys |-> <<>>,
     statsByKey |-> {},
     configLoaded |-> FALSE]

\* the state of a mode whose catalog has been loaded and rendered
LoadedModeState ==
    [EmptyModeState EXCEPT !.statsByKey = CatalogKeys, !.configLoaded = TRUE]

getState == stateByMode[activeMode]

NoStatsEl == [mode |-> "none", checked |-> {}]

(***************************************************************************)
(* Suspended handlers.                                                     *)
(***************************************************************************)
IdleTask == [kind |-> "idle", mode |-> "none", year |-> 0, stage |-> "none",
             tried |-> <<>>, key |-> <<>>]
FreeTasks == {t \in TaskIds : tasks[t].kind = "idle"}
HasFreeTask == FreeTasks # {}
NewTask == CHOOSE t \in FreeTasks : \A u \in FreeTasks : t <= u
\* a handler leaves `task` behind: IdleTask when it ran to its end, else the
\* request it waits for.  `t` is the slot the handler was suspended in, 0
\* for a handler that starts with this event.
CanLeave(t, task) == t # 0 \/ task.kind = "idle" \/ HasFreeTask
Leave(t, task) ==
    IF t # 0 THEN [tasks EXCEPT ![t] = task]
    ELSE IF task.kind = "idle" THEN tasks
    ELSE [tasks EXCEPT ![NewTask] = task]

(***************************************************************************)
(* Persistence: persistNow, serializeState and the storage they write to.  *)
(***************************************************************************)
\* nothing is stored under STORAGE_KEY
NoPayload == [version |-> 0]

serializeModeState(modeState) ==
    [savedPlayers |-> modeState.savedPlayers,
     activePlayerId |-> modeState.activePlayerId,
     activeCompareIds |-> modeState.activeCompareIds,
     selectedStatKeys |-> modeState.selectedStatKeys]

serializeState ==
    [version |-> STORAGE_VERSION,
     year |-> yearValue,
     mode |-> activeMode,
     rangeEnabled |-> rangeEnabled,
     rangeStart |-> rangeStart,
     rangeEnd |-> rangeEnd,
     leaderboard |-> leaderboardStateByMode,
     modes |-> [m \in Modes |-> serializeModeState(stateByMode[m])]]

\* how a call of chrome.storage.local.set can end: the value is stored, the
\* callback finds chrome.runtime.lastError, or the call itself throws
StorageAnswers == {"ok", "error", "throws"}

NoAccess == [op |-> "none", outcome |-> "none"]

\* a call of chrome.storage.local.set outside of any try block
setOutcome_NoCatch(answer) == IF answer = "throws" THEN "raised" ELSE answer

\* what becomes of an answer of the storage in the try block around
\* chrome.storage.local.set: an error is logged, an exception is caught
setOutcome(answer) == IF answer = "throws" THEN "caught" ELSE answer

\* the try block of persistNow and of the timer of schedulePersist, after the
\* rest of the handler that runs it
storageSet(answer) ==
    /\ storage' = IF answer = "ok" THEN serializeState' ELSE storage
    /\ writesInWindow' = IF writesInWindow < MaxWritesCounted
                         THEN writesInWindow + 1 ELSE writesInWindow
    /\ lastStorage' = [op |-> "set", outcome |-> setOutcome(answer)]

persistNow ==
    IF ~hasStorage THEN UNCHANGED <<storage, writesInWindow, lastStorage>>
    ELSE \E answer \in storageAnswers : storageSet(answer)

\* the handler calls persistNow when `called`, on the state it leaves
Persist(called) ==
    /\ UNCHANGED <<hasStorage, storageAnswers, persistTimer>>
    /\ IF called THEN persistNow
       ELSE UNCHANGED <<storage, writesInWindow, lastStorage>>

\* a session without chrome.storage.local
NoStorage ==
    /\ hasStorage = FALSE
    /\ storageAnswers = {"ok"}
    /\ storage = NoPayload
    /\ persistTimer = FALSE
    /\ writesInWindow = 0
    /\ lastStorage = NoAccess

\* clearOutputs, for the two output elements
clearOutputs ==
    /\ outputPlayer' = ""
    /\ outputCompare' = ""

(***************************************************************************)
(* Range mode: isRangeSupported, enforceRangeSelections.                   *)
(***************************************************************************)
\* isRangeSupported(key) against the statsByKey of `state`
isRangeSupported(state, key) ==
    key \in state.statsByKey /\ RangeSupportedFlag(key)

\* enforceRangeSelections: the selectedStatKeys it leaves in `state`
enforceRangeSelections(state, rangeOn) ==
    IF ~rangeOn THEN state
    ELSE [state EXCEPT !.selectedStatKeys =
              SelectSeq(@, LAMBDA key : isRangeSupported(state, key))]

\* the checkboxes enforceRangeSelections unchecks in statsEl (looked up by value)
UncheckSeasonOnly(el, state, rangeOn) ==
    IF ~rangeOn THEN el
    ELSE [el EXCEPT !.checked =
              @ \ {key \in SeqRange(state.selectedStatKeys) :
                       ~isRangeSupported(state, key)}]

(***************************************************************************)
(* Saved players.                                                          *)
(***************************************************************************)
\* addPlayerToMode with the capacity test off by one (> for >=)
addPlayerToMode_OffByOne(state, player) ==
    IF SeqHas(state.savedPlayers, player) THEN state
    ELSE IF Len(state.savedPlayers) > MAX_SAVED_PLAYERS THEN state
    ELSE [state EXCEPT
              !.savedPlayers = Append(@, player),
              !.activePlayerId = IF @ = NoPlayer THEN player ELSE @]

\* addPlayerToMode without its search for the player's id
addPlayerToMode_NoDuplicateTest(state, player) ==
    IF Len(state.savedPlayers) >= MAX_SAVED_PLAYERS THEN state
    ELSE [state EXCEPT
              !.savedPlayers = Append(@, player),
              !.activePlayerId = IF @ = NoPlayer THEN player ELSE @]

addPlayerToMode(state, player) ==
    IF SeqHas(state.savedPlayers, player) THEN state
    ELSE IF Len(state.savedPlayers) >= MAX_SAVED_PLAYERS THEN state
    ELSE [state EXCEPT
              !.savedPlayers = Append(@, player),
              !.activePlayerId = IF @ = NoPlayer THEN player ELSE @]

\* removePlayer that forgets activeCompareIds.delete(playerId)
removePlayer_NoCompareDelete(state, playerId) ==
    IF ~SeqHas(state.savedPlayers, playerId) THEN state
    ELSE [state EXCEPT
              !.savedPlayers = SetDelete(@, playerId),
              !.activePlayerId = IF @ = playerId THEN NoPlayer ELSE @]

\* removePlayer, on the state it reads through getState()
removePlayer(state, playerId) ==
    IF ~SeqHas(state.savedPlayers, playerId) THEN state
    ELSE [state EXCEPT
              !.savedPlayers = SetDelete(@, playerId),
              !.activePlayerId = IF @ = playerId THEN NoPlayer ELSE @,
              !.activeCompareIds = SetDelete(@, playerId)]

\* the compare branch with the capacity test off by one (> for >=)
toggleCompare_OffByOne(state, playerId) ==
    IF SeqHas(state.activeCompareIds, playerId)
    THEN [state EXCEPT !.activeCompareIds = SetDelete(@, playerId)]
    ELSE IF Len(state.activeCompareIds) > MAX_COMPARE_PLAYERS THEN state
    ELSE [state EXCEPT !.activeCompareIds = Append(@, playerId)]

\* the compare branch of the pill's click handler
toggleCompare(state, playerId) ==
    IF SeqHas(state.activeCompareIds, playerId)
    THEN [state EXCEPT !.activeCompareIds = SetDelete(@, playerId)]
    ELSE IF Len(state.activeCompareIds) >= MAX_COMPARE_PLAYERS THEN state
    ELSE [state EXCEPT !.activeCompareIds = Append(@, playerId)]

\* renderSelected: the pills show the active mode's savedPlayers
renderSelected(states, mode) == states[mode].savedPlayers

\* "Add" of a search result: addPlayer(player)
AddPlayerClick(player) ==
    /\ stateByMode' = [stateByMode EXCEPT
                          ![activeMode] = addPlayerToMode(@, player)]
    /\ savedPlayersEl' = renderSelected(stateByMode', activeMode)
    /\ UNCHANGED <<activeMode, statsEl, rangeVars, dataVars, lbVars, outVars, tasks>>
    /\ Persist(stateByMode' # stateByMode)

\* "Add" of a roster row of `mode` (renderRosterList)
RosterAddClick(mode, player) ==
    /\ stateByMode' = [stateByMode EXCEPT ![mode] = addPlayerToMode(@, player)]
    /\ savedPlayersEl' = IF activeMode = mode
                         THEN renderSelected(stateByMode', activeMode)
                         ELSE savedPlayersEl
    /\ UNCHANGED <<activeMode, statsEl, rangeVars, dataVars, lbVars, outVars, tasks>>
    /\ Persist(stateByMode' # stateByMode)

\* click on a pill of the players tab
SetActiveClick(player) ==
    /\ SeqHas(savedPlayersEl, player)
    /\ stateByMode' = [stateByMode EXCEPT ![activeMode].activePlayerId = player]
    /\ savedPlayersEl' = renderSelected(stateByMode', activeMode)
    /\ UNCHANGED <<activeMode, statsEl, rangeVars, dataVars, lbVars, outVars, tasks>>
    /\ Persist(TRUE)

\* click on a pill of the compare tab
ToggleCompareClick(player) ==
    /\ SeqHas(savedPlayersEl, player)
    /\ stateByMode' = [stateByMode EXCEPT ![activeMode] = toggleCompare(@, player)]
    /\ savedPlayersEl' =
          IF /\ ~SeqHas(getState.activeCompareIds, player)
             /\ Len(getState.activeCompareIds) >= MAX_COMPARE_PLAYERS
          THEN savedPlayersEl
          ELSE renderSelected(stateByMode', activeMode)
    /\ UNCHANGED <<activeMode, statsEl, rangeVars, dataVars, lbVars, outVars, tasks>>
    /\ Persist(\/ SeqHas(getState.activeCompareIds, player)
               \/ Len(getState.activeCompareIds) < MAX_COMPARE_PLAYERS)

\* click on the "x" of a pill
RemoveClick(player) ==
    /\ SeqHas(savedPlayersEl, player)
    /\ stateByMode' = [stateByMode EXCEPT ![activeMode] = removePlayer(@, player)]
    /\ savedPlayersEl' =
          IF SeqHas(getState.savedPlayers, player)
          THEN renderSelected(stateByMode', activeMode)
          ELSE savedPlayersEl
    /\ UNCHANGED <<activeMode, statsEl, rangeVars, dataVars, lbVars, outVars, tasks>>
    /\ Persist(SeqHas(getState.savedPlayers, player))

clearSavedPlayers(state) ==
    [state EXCEPT !.savedPlayers = <<>>,
                  !.activeCompareIds = <<>>,
                  !.activePlayerId = NoPlayer]

ClearSavedPlayersClick ==
    /\ stateByMode' = [stateByMode EXCEPT ![activeMode] = clearSavedPlayers(@)]
    /\ savedPlayersEl' = renderSelected(stateByMode', activeMode)
    /\ UNCHANGED <<activeMode, statsEl, rangeVars, dataVars, lbVars, outVars, tasks>>
    /\ Persist(TRUE)

(***************************************************************************)
(* Stat checkboxes.                                                        *)
(***************************************************************************)
\* what the change handler of the checkbox of `key` does to the Set it closed
\* over (the selectedStatKeys of the mode statsEl was rendered for); `checked`
\* is checkbox.checked as the event has just set it
checkboxChange(state, key, checked) ==
    IF checked
    THEN IF Len(state.selectedStatKeys) >= MAX_STATS THEN state
         ELSE [state EXCEPT !.selectedStatKeys = SetAdd(@, key)]
    ELSE [state EXCEPT !.selectedStatKeys = SetDelete(@, key)]

StatCheckboxChange(key) ==
    /\ statsEl.mode \in Modes
    /\ key \in CatalogKeys
    /\ IsAvailable(key)
    /\ LET checked == key \notin statsEl.checked
           refused == /\ checked
                      /\ Len(stateByMode[statsEl.mode].selectedStatKeys) >= MAX_STATS
           toggled == [stateByMode EXCEPT
                          ![statsEl.mode] = checkboxChange(@, key, checked)]
           el == [statsEl EXCEPT
                     !.checked = IF checked /\ ~refused THEN @ \cup {key}
                                 ELSE @ \ {key}]
       IN  \* updateStatsLimit and enforceRangeSelections act on getState()
           /\ stateByMode' = [toggled EXCEPT
                  ![activeMode] = enforceRangeSelections(@, rangeEnabled)]
           /\ statsEl' = UncheckSeasonOnly(el, toggled[activeMode], rangeEnabled)
           /\ UNCHANGED <<activeMode, savedPlayersEl, rangeVars, dataVars, lbVars,
                          outVars, tasks>>
           /\ Persist(~refused)

\* renderStatsConfig, on the active mode's state
renderStatsConfig(state, rangeOn) ==
    LET filled == [state EXCEPT
                      !.statsByKey = CatalogKeys,
                      !.selectedStatKeys = SelectSeq(@, LAMBDA key :
                                               ~(key \in CatalogKeys /\ ~IsAvailable(key)))]
    IN  enforceRangeSelections(filled, rangeOn)

renderStatsEl(state, mode) ==
    [mode |-> mode,
     checked |-> {key \in SeqRange(state.selectedStatKeys) :
                      key \in CatalogKeys /\ IsAvailable(key)}]

(***************************************************************************)
(* Datasets.  A dataset is named by the file it was read from: the mode's  *)
(* file, the season and the source that served it.                         *)
(***************************************************************************)
EmptyDataset == [file |-> "none", year |-> 0, via |-> "none"]
NullMeta == [source |-> "null", year |-> 0]
EmptyMap == [y \in {} |-> EmptyDataset]
\* the value of an empty date input
NoDate == <<0, 0>>
Sources == {"bundled snapshot", "cdn snapshot", "local api"}
AllSourcesUp == [year \in Years |-> [source \in Sources |-> "object"]]
MapSet(map, key, value) ==
    [k \in DOMAIN map \cup {key} |-> IF k = key THEN value ELSE map[k]]

\* the snapshot of `stage` and `year` as its first source serves it
FirstSnapshot(stage, year) ==
    [players |-> [file |-> IF stage = "hitters" THEN "players" ELSE "pitchers",
                  year |-> year, via |-> "bundled snapshot"],
     meta |-> [source |-> "bundled snapshot", year |-> year]]

\* the caches and active datasets, as one record
Data ==
    [snapshotsByYear |-> snapshotsByYear,
     pitcherSnapshotsByYear |-> pitcherSnapshotsByYear,
     activePlayers |-> activePlayers,
     activePitchers |-> activePitchers,
     activeMetaByMode |-> activeMetaByMode]

SetData(d) ==
    /\ snapshotsByYear' = d.snapshotsByYear
    /\ pitcherSnapshotsByYear' = d.pitcherSnapshotsByYear
    /\ activePlayers' = d.activePlayers
    /\ activePitchers' = d.activePitchers
    /\ activeMetaByMode' = d.activeMetaByMode

(***************************************************************************)
(* Leaderboard: the selected stat, the state kept per mode and the output  *)
(* element, which is named by what it shows.                               *)
(***************************************************************************)
\* statKey: null
NoStat == 0
NoOutput ==
    [kind |-> "empty", text |-> "", stat |-> NoStat, data |-> EmptyDataset,
     board |-> <<>>, ranks |-> <<>>]
\* renderMessage(text, leaderboardOutput)
MessageOutput(text) ==
    [kind |-> "message", text |-> text, stat |-> NoStat, data |-> EmptyDataset,
     board |-> <<>>, ranks |-> <<>>]
\* the messages of renderLeaderboard
ConfigNotFound == "Stat configuration not found."
FetchFailed == "Failed to fetch leaderboard data."
NoDataAvailable == "No data available for this season."
NoQualifiedPlayers == "No qualified players have data for this stat."
\* the table of the rows of `board`, made for `statKey` from `dataset`; the
\* first cell of the row of top25[index] is String(index + 1)
TableOutput(statKey, dataset, board) ==
    [kind |-> "table", text |-> "", stat |-> statKey, data |-> dataset,
     board |-> board,
     ranks |-> [i \in 1..Len(board) |-> (i - 1) + 1]]
\* pitcherRole: null
NoRole == "null"
PITCHER_ROLE_STARTERS == "starters"
PITCHER_ROLE_RELIEVERS == "relievers"
DEFAULT_PITCHER_ROLE == PITCHER_ROLE_STARTERS
EmptyLeaderboardState ==
    [statKey |-> NoStat, output |-> NoOutput, year |-> 0, pitcherRole |-> NoRole]

\* a role taken as it comes
normalizePitcherRole_AsGiven(role) == role

normalizePitcherRole(role) ==
    IF role = PITCHER_ROLE_STARTERS \/ role = PITCHER_ROLE_RELIEVERS THEN role
    ELSE DEFAULT_PITCHER_ROLE

\* getActivePitcherRole, on the leaderboard state per mode
getActivePitcherRole(byMode) == normalizePitcherRole(byMode["pitchers"].pitcherRole)

\* the initial value of leaderboardStateByMode
FreshLeaderboardState ==
    [m \in Modes |->
        IF m = "pitchers"
        THEN [EmptyLeaderboardState EXCEPT !.pitcherRole = DEFAULT_PITCHER_ROLE]
        ELSE EmptyLeaderboardState]

\* STATCAST_RANGE_KEYS.has(key) / STATCAST_RANGE_KEYS_PITCHERS.has(key)
IsStatcastKey(mode, key) ==
    IF mode = "hitters" THEN key % 3 = 0 ELSE key % 4 = 0

\* some row of the dataset has a value under a statcast key: the rows of the
\* query interface do, the rows of the snapshot files do not
HasStatcastValue(dataset) == dataset.via = "local api"

\* the files of the sources, and a file of one row that qualifies
Files == {"players", "pitchers", "statcast"}
DefaultRows ==
    [file \in Files |->
        <<[id |-> 1, team |-> "NYY", qual |-> TRUE, pa |-> 150, g |-> 20,
           gs |-> 20, ip |-> 60, value |-> 1]>>]

shouldUseStatcastLeaderboard(mode, statKey, dataset) ==
    IsStatcastKey(mode, statKey) /\ ~HasStatcastValue(dataset)

\* the rows the statcast leaderboard endpoint answers for a key
StatcastRows(key) == [file |-> "statcast", year |-> key[2], via |-> "local api"]

getActiveDataset(d, mode) ==
    IF mode = "pitchers" THEN d.activePitchers ELSE d.activePlayers

Lb ==
    [active |-> activeLeaderboardStat,
     byMode |-> leaderboardStateByMode,
     output |-> leaderboardOutput]

SetLb(lb) ==
    /\ activeLeaderboardStat' = lb.active
    /\ leaderboardStateByMode' = lb.byMode
    /\ leaderboardOutput' = lb.output

persistLeaderboardState(lb, mode, year, statKey) ==
    [lb EXCEPT !.byMode[mode] =
        [statKey |-> statKey, output |-> lb.output, year |-> year,
         pitcherRole |-> IF mode = "pitchers" THEN getActivePitcherRole(lb.byMode)
                         ELSE NoRole]]

(***************************************************************************)
(* The rows of a dataset and the board renderLeaderboard makes of them.    *)
(* A row has its place in the dataset as id and one stat column, `value`.  *)
(***************************************************************************)
\* null, undefined or NaN in a numeric field of a row
Null == -1

\* the rows of a dataset: those of the file it was read from
Rows(dataset) ==
    IF dataset = EmptyDataset THEN <<>> ELSE seasonRows[dataset.file]

IsNumber(value) == value # Null

\* !player.team || player.team.trim() === ""
BlankTeams == {"", " "}

\* a classification that takes a half of the games started for too few
getPitcherRole_StrictHalf(player) ==
    IF IsNumber(player.g) /\ player.g # 0 /\ IsNumber(player.gs)
    THEN IF 2 * player.gs > player.g
         THEN PITCHER_ROLE_STARTERS ELSE PITCHER_ROLE_RELIEVERS
    ELSE IF IsNumber(player.g) /\ player.g # 0 /\ IsNumber(player.ip)
    THEN IF player.ip >= 3 * player.g
         THEN PITCHER_ROLE_STARTERS ELSE PITCHER_ROLE_RELIEVERS
    ELSE NoRole

getPitcherRole(player) ==
    IF IsNumber(player.g) /\ player.g # 0 /\ IsNumber(player.gs)
    THEN IF 2 * player.gs >= player.g
         THEN PITCHER_ROLE_STARTERS ELSE PITCHER_ROLE_RELIEVERS
    ELSE IF IsNumber(player.g) /\ player.g # 0 /\ IsNumber(player.ip)
    THEN IF player.ip >= 3 * player.g
         THEN PITCHER_ROLE_STARTERS ELSE PITCHER_ROLE_RELIEVERS
    ELSE NoRole

matchesPitcherRole(player, role) == getPitcherRole(player) = role

\* dataset.some(...) of hasGames, hasPa and hasIp
hasGames(dataset) == \E i \in 1..Len(dataset) : IsNumber(dataset[i].g)
hasPa(dataset) == \E i \in 1..Len(dataset) : IsNumber(dataset[i].pa)
hasIp(dataset) == \E i \in 1..Len(dataset) : IsNumber(dataset[i].ip)

\* a filter without the test on the team
basePlayers_NoTeamTest(dataset) ==
    SelectSeq(dataset, LAMBDA player :
        /\ IsNumber(player.value)
        /\ player.qual)

\* `qual` is FALSE for a row flagged with false or 0
basePlayers(dataset) ==
    SelectSeq(dataset, LAMBDA player :
        /\ IsNumber(player.value)
        /\ player.team \notin BlankTeams
        /\ player.qual)

rolePlayers(mode, role, dataset) ==
    IF mode = "pitchers"
    THEN SelectSeq(basePlayers(dataset),
                   LAMBDA player : matchesPitcherRole(player, role))
    ELSE basePlayers(dataset)

\* a filter that applies the test on games to a dataset without games
isQualified_NeverSkips(mode, dataset, player) ==
    /\ mode = "hitters" =>
           /\ hasPa(dataset) => (IsNumber(player.pa) /\ player.pa >= 150)
           /\ IsNumber(player.g) /\ player.g >= 20
    /\ mode = "pitchers" =>
           /\ hasIp(dataset) => (IsNumber(player.ip) /\ player.ip >= 50)
           /\ IsNumber(player.g) /\ player.g >= 10

\* the filter of qualifiedPlayers
isQualified(mode, dataset, player) ==
    /\ mode = "hitters" =>
           /\ hasPa(dataset) => (IsNumber(player.pa) /\ player.pa >= 150)
           /\ hasGames(dataset) => (IsNumber(player.g) /\ player.g >= 20)
    /\ mode = "pitchers" =>
           /\ hasIp(dataset) => (IsNumber(player.ip) /\ player.ip >= 50)
           /\ hasGames(dataset) => (IsNumber(player.g) /\ player.g >= 10)

qualifiedPlayers(mode, role, dataset) ==
    SelectSeq(rolePlayers(mode, role, dataset),
              LAMBDA player : isQualified(mode, dataset, player))

\* the qualified rows, however few they are
validPlayers_NoFallback(mode, role, dataset) ==
    qualifiedPlayers(mode, role, dataset)

validPlayers(mode, role, dataset) ==
    IF Len(qualifiedPlayers(mode, role, dataset)) >= TOP_COUNT
    THEN qualifiedPlayers(mode, role, dataset)
    ELSE rolePlayers(mode, role, dataset)

\* a comparator that always sorts descending
sortsBefore_Descending(a, b, lowerIsBetter) == b.value - a.value < 0

\* the comparator of the sort is negative for (a, b): a goes before b
sortsBefore(a, b, lowerIsBetter) ==
    IF lowerIsBetter THEN a.value - b.value < 0 ELSE b.value - a.value < 0

\* Array.prototype.sort is stable: a row goes behind the rows it does not
\* go before
RECURSIVE insertSorted(_, _, _)
insertSorted(sorted, player, lowerIsBetter) ==
    IF sorted = <<>> THEN <<player>>
    ELSE IF sortsBefore(player, sorted[Len(sorted)], lowerIsBetter)
    THEN Append(insertSorted(SubSeq(sorted, 1, Len(sorted) - 1), player,
                             lowerIsBetter),
                sorted[Len(sorted)])
    ELSE Append(sorted, player)

RECURSIVE sortedPlayers(_, _)
sortedPlayers(players, lowerIsBetter) ==
    IF players = <<>> THEN <<>>
    ELSE insertSorted(sortedPlayers(SubSeq(players, 1, Len(players) - 1),
                                    lowerIsBetter),
                      players[Len(players)], lowerIsBetter)

\* sortedPlayers.slice(0, 25)
top25(mode, role, statKey, dataset) ==
    LET sorted == sortedPlayers(validPlayers(mode, role, dataset),
                                LowerIsBetter(statKey))
    IN  SubSeq(sorted, 1, IF Len(sorted) < TOP_COUNT THEN Len(sorted) ELSE TOP_COUNT)

\* a render that makes a table of no rows when no row is eligible
finishLeaderboard_EmptyTable(lb, mode, year, statKey, dataset) ==
    LET board == top25(mode, getActivePitcherRole(lb.byMode), statKey, Rows(dataset))
        shown == IF Rows(dataset) = <<>> THEN MessageOutput(NoDataAvailable)
                 ELSE TableOutput(statKey, dataset, board)
    IN  persistLeaderboardState([lb EXCEPT !.output = shown], mode, year, statKey)

\* renderLeaderboard from `if (!dataset.length)` to its end
finishLeaderboard(lb, mode, year, statKey, dataset) ==
    LET board == top25(mode, getActivePitcherRole(lb.byMode), statKey, Rows(dataset))
        shown == IF Rows(dataset) = <<>> THEN MessageOutput(NoDataAvailable)
                 ELSE IF board = <<>> THEN MessageOutput(NoQualifiedPlayers)
                 ELSE TableOutput(statKey, dataset, board)
    IN  persistLeaderboardState([lb EXCEPT !.output = shown], mode, year, statKey)

LeaderboardTask(key) == [IdleTask EXCEPT !.kind = "leaderboard", !.key = key]

\* a render that does not look the stat up in the registry
renderLeaderboard_NoConfigTest(lb, mode, year, state, dataset, cache, statKey) ==
    LET cleared == [lb EXCEPT !.output = NoOutput]
        cacheKey == <<mode, year, statKey>>
    IN  IF ~shouldUseStatcastLeaderboard(mode, statKey, dataset)
        THEN [lb |-> finishLeaderboard(cleared, mode, year, statKey, dataset),
              task |-> IdleTask]
        ELSE IF cacheKey \in DOMAIN cache
        THEN [lb |-> finishLeaderboard(cleared, mode, year, statKey, cache[cacheKey]),
              task |-> IdleTask]
        ELSE [lb |-> cleared, task |-> LeaderboardTask(cacheKey)]

\* renderLeaderboard(statKey) up to the point where it waits for the
\* statcast request, or to its end
renderLeaderboard(lb, mode, year, state, dataset, cache, statKey) ==
    LET cleared == [lb EXCEPT !.output = NoOutput]
        cacheKey == <<mode, year, statKey>>
    IN  IF statKey \notin state.statsByKey
        THEN [lb |-> persistLeaderboardState([cleared EXCEPT !.output =
                                                 MessageOutput(ConfigNotFound)],
                                             mode, year, statKey),
              task |-> IdleTask]
        ELSE IF ~shouldUseStatcastLeaderboard(mode, statKey, dataset)
        THEN [lb |-> finishLeaderboard(cleared, mode, year, statKey, dataset),
              task |-> IdleTask]
        ELSE IF cacheKey \in DOMAIN cache
        THEN [lb |-> finishLeaderboard(cleared, mode, year, statKey, cache[cacheKey]),
              task |-> IdleTask]
        ELSE [lb |-> cleared, task |-> LeaderboardTask(cacheKey)]

restoreLeaderboardForMode(lb, mode, year, state, dataset, cache) ==
    LET savedState == lb.byMode[mode]
        restored == [lb EXCEPT !.active = savedState.statKey]
        hasCachedOutput == savedState.output # NoOutput /\ savedState.year = year
    IN  IF savedState.statKey = NoStat
        THEN [lb |-> [restored EXCEPT !.output = NoOutput], task |-> IdleTask]
        ELSE IF hasCachedOutput
        THEN [lb |-> [restored EXCEPT !.output = savedState.output], task |-> IdleTask]
        ELSE renderLeaderboard(restored, mode, year, state, dataset, cache,
                               savedState.statKey)

LeaderboardInit ==
    /\ activeLeaderboardStat = NoStat
    /\ leaderboardStateByMode = FreshLeaderboardState
    /\ leaderboardOutput = NoOutput

(***************************************************************************)
(* Mode switch: applyMode and loadStatsConfigForMode.                      *)
(***************************************************************************)
\* applyMode after its await, on the mode active by then: renderSelected,
\* clearOutputs and restoreLeaderboardForMode
applyModeRest(t, states) ==
    LET restore == restoreLeaderboardForMode(Lb, activeMode', yearValue,
                       states[activeMode'], getActiveDataset(Data, activeMode'),
                       leaderboardStatcastCache)
    IN  /\ CanLeave(t, restore.task)
        /\ tasks' = Leave(t, restore.task)
        /\ SetLb(restore.lb)
        /\ savedPlayersEl' = renderSelected(states, activeMode')
        /\ clearOutputs

\* change of the mode select
ModeChange(mode) ==
    /\ mode \in Modes
    /\ mode # activeMode
    /\ activeMode' = mode
    /\ IF stateByMode[mode].configLoaded
       THEN /\ stateByMode' = [stateByMode EXCEPT
                   ![mode] = renderStatsConfig(@, rangeEnabled)]
            /\ statsEl' = renderStatsEl(stateByMode'[mode], mode)
            /\ applyModeRest(0, stateByMode')
       ELSE \* suspended at fetch(chrome.runtime.getURL(fileName))
            /\ HasFreeTask
            /\ tasks' = [tasks EXCEPT ![NewTask] =
                   [IdleTask EXCEPT !.kind = "applyMode", !.mode = mode]]
            /\ UNCHANGED <<stateByMode, statsEl, savedPlayersEl, lbVars, outVars>>
    /\ UNCHANGED <<rangeVars, dataVars>>
    /\ Persist(stateByMode[mode].configLoaded)

\* the catalog fetch of a suspended applyMode settles
ConfigFetchDone(t, ok) ==
    /\ tasks[t].kind = "applyMode"
    /\ UNCHANGED activeMode
    /\ LET mode == tasks[t].mode
           loaded == IF ok THEN [stateByMode EXCEPT ![mode].configLoaded = TRUE]
                     ELSE stateByMode
           render == ok /\ mode = activeMode
       IN  /\ stateByMode' = IF render
                             THEN [loaded EXCEPT
                                      ![mode] = renderStatsConfig(@, rangeEnabled)]
                             ELSE loaded
           /\ statsEl' = IF render THEN renderStatsEl(stateByMode'[mode], mode)
                         ELSE statsEl
           /\ applyModeRest(t, stateByMode')
    /\ UNCHANGED <<rangeVars, dataVars>>
    /\ Persist(TRUE)

\* the data of a session whose init has loaded both snapshots of the bundled
\* season from the bundled copy
LoadedData ==
    /\ yearValue = BUNDLED_YEAR
    /\ localSnapshots = TRUE
    /\ snapshotsByYear = MapSet(EmptyMap, BUNDLED_YEAR, FirstSnapshot("hitters", BUNDLED_YEAR))
    /\ pitcherSnapshotsByYear = MapSet(EmptyMap, BUNDLED_YEAR, FirstSnapshot("pitchers", BUNDLED_YEAR))
    /\ activePlayers = FirstSnapshot("hitters", BUNDLED_YEAR).players
    /\ activePitchers = FirstSnapshot("pitchers", BUNDLED_YEAR).players
    /\ activeMetaByMode = [m \in Modes |-> FirstSnapshot(m, BUNDLED_YEAR).meta]
    /\ rangeCache = EmptyMap
    /\ leaderboardStatcastCache = EmptyMap
    /\ sourceStatus = AllSourcesUp

\* no function is called on its own in the session
NoResult == [fn |-> "none", value |-> <<>>]
NoCall ==
    /\ callArgs = <<>>
    /\ callResult = NoResult

DataInit ==
    /\ LoadedData
    /\ seasonRows = DefaultRows
    /\ NoCall

NoTasks == [t \in TaskIds |-> IdleTask]
NoneSuspended == \A t \in TaskIds : tasks[t].kind = "idle"

\* the selection state once init has applied `mode` with nothing stored
SelectionInit(mode) ==
    /\ activeMode = mode
    /\ stateByMode = [m \in Modes |->
                         IF m = mode THEN LoadedModeState ELSE EmptyModeState]
    /\ savedPlayersEl = <<>>
    /\ statsEl = [mode |-> mode, checked |-> {}]
    /\ rangeEnabled = FALSE
    /\ rangeStart = NoDate
    /\ rangeEnd = NoDate
    /\ LeaderboardInit
    /\ outputPlayer = ""
    /\ outputCompare = ""

(***************************************************************************)
(* Season snapshots: loadSnapshot and loadPitcherSnapshot.  `stage` names  *)
(* the one that runs: "hitters" for loadSnapshot, "pitchers" for           *)
(* loadPitcherSnapshot.  The data the loads read and write travels as a    *)
(* record through the operators below.                                     *)
(***************************************************************************)
SnapshotFile(stage) == IF stage = "hitters" THEN "players" ELSE "pitchers"
SnapshotCache(d, stage) ==
    IF stage = "hitters" THEN d.snapshotsByYear ELSE d.pitcherSnapshotsByYear

\* activePlayers / activePitchers and the mode's meta
SetActive(d, stage, players, meta) ==
    IF stage = "hitters"
    THEN [d EXCEPT !.activePlayers = players, !.activeMetaByMode["hitters"] = meta]
    ELSE [d EXCEPT !.activePitchers = players, !.activeMetaByMode["pitchers"] = meta]

\* snapshotsByYear.set(year, { players, meta }) and the two assignments
StoreSnapshot(d, stage, year, players, meta) ==
    LET entry == [players |-> players, meta |-> meta]
        cached == IF stage = "hitters"
                  THEN [d EXCEPT !.snapshotsByYear = MapSet(@, year, entry)]
                  ELSE [d EXCEPT !.pitcherSnapshotsByYear = MapSet(@, year, entry)]
    IN  SetActive(cached, stage, players, meta)

\* the branch taken when the cache has the year
UseCached(d, stage, year) ==
    LET cached == SnapshotCache(d, stage)[year]
    IN  SetActive(d, stage, cached.players, cached.meta)

\* `urls` with the remote mirror first for every year
snapshotUrls_RemoteFirst(year) ==
    SelectSeq(<<"cdn snapshot", "bundled snapshot">>,
              LAMBDA source : source = "cdn snapshot" \/ localSnapshots)

\* the `urls` array: the sources tried before the query interface
snapshotUrls(year) ==
    LET preferLocal == year = BUNDLED_YEAR /\ localSnapshots
    IN  IF preferLocal
        THEN <<"bundled snapshot", "cdn snapshot">>
        ELSE SelectSeq(<<"cdn snapshot", "bundled snapshot">>,
                       LAMBDA source : source = "cdn snapshot" \/ localSnapshots)

\* every request a load can issue, in the order it issues them
snapshotRequests(year) == Append(snapshotUrls(year), "local api")

\* the response stored under the year the select shows when it arrives
SnapshotLoaded_UnderSelectedYear(d, stage, year, source, format) ==
    LET players == [file |-> SnapshotFile(stage), year |-> year, via |-> source]
        meta == IF source = "local api" THEN [source |-> "local api", year |-> 0]
                ELSE IF format = "object" THEN [source |-> source, year |-> year]
                ELSE NullMeta
    IN  StoreSnapshot(d, stage, yearValue, players, meta)

\* a response with response.ok and a payload that parses: an object
\* { players, meta } or a bare array; from the query interface, the rows
SnapshotLoaded(d, stage, year, source, format) ==
    LET players == [file |-> SnapshotFile(stage), year |-> year, via |-> source]
        meta == IF source = "local api" THEN [source |-> "local api", year |-> 0]
                ELSE IF format = "object" THEN [source |-> source, year |-> year]
                ELSE NullMeta
    IN  StoreSnapshot(d, stage, year, players, meta)

\* an innermost catch that only logs
SnapshotFailed_KeepsActive(d, stage) == d

\* the innermost catch: every source has failed
SnapshotFailed(d, stage) == SetActive(d, stage, EmptyDataset, NullMeta)

Suspended(kind, stage, year) ==
    [IdleTask EXCEPT !.kind = kind, !.stage = stage, !.year = year,
                     !.tried = <<snapshotUrls(year)[1]>>]

\* a handler reaches `await loadPitcherSnapshot(yearSelect.value)`; `year` is
\* the value of the select at that moment.  The result is the data and the
\* task left behind: IdleTask when the handler ran to the end of its loads.
RunPitcherLoad(d, kind, year) ==
    IF year \in DOMAIN d.pitcherSnapshotsByYear
    THEN [d |-> UseCached(d, "pitchers", year), task |-> IdleTask]
    ELSE [d |-> d, task |-> Suspended(kind, "pitchers", year)]

\* loadSnapshot without its look into snapshotsByYear
RunHitterLoad_NoCacheCheck(d, kind, year) ==
    [d |-> d, task |-> Suspended(kind, "hitters", year)]

\* a handler reaches `await loadSnapshot(yearSelect.value)`
RunHitterLoad(d, kind, year) ==
    IF year \in DOMAIN d.snapshotsByYear
    THEN RunPitcherLoad(UseCached(d, "hitters", year), kind, year)
    ELSE [d |-> d, task |-> Suspended(kind, "hitters", year)]

\* what follows the two loads of the year handler: the handler stays
\* suspended, or it runs to its end: renderSelected and
\* restoreLeaderboardForMode
AfterLoads(t, run, year) ==
    LET restore == restoreLeaderboardForMode(Lb, activeMode, year, getState,
                       getActiveDataset(run.d, activeMode), leaderboardStatcastCache)
        finished == run.task.kind = "idle"
        left == IF finished THEN restore.task ELSE run.task
    IN  /\ CanLeave(t, left)
        /\ tasks' = Leave(t, left)
        /\ SetLb(IF finished THEN restore.lb ELSE Lb)
        /\ savedPlayersEl' = IF finished
                             THEN renderSelected(stateByMode, activeMode)
                             ELSE savedPlayersEl
        /\ UNCHANGED <<stateByMode, statsEl>>

\* change of the year select
YearChange(year) ==
    /\ year \in Years
    /\ year # yearValue
    /\ yearValue' = year
    /\ LET run == RunHitterLoad(Data, "year", year)
       IN  /\ SetData(run.d)
           /\ AfterLoads(0, run, year)
           /\ clearOutputs
           /\ UNCHANGED <<activeMode, rangeVars, envVars, fetchVars>>
           /\ Persist(run.task.kind = "idle")

\* the snapshot request of a suspended load settles.  `response` is "object"
\* or "array" for a payload that parses, "fail" for a network error, a
\* status that is not ok, or a payload that does not parse.
SnapshotFetchDone(t, response) ==
    /\ tasks[t].kind = "year"
    /\ response \in {"object", "array", "fail"}
    /\ LET task == tasks[t]
           source == task.tried[Len(task.tried)]
           requests == snapshotRequests(task.year)
           retry == response = "fail" /\ Len(task.tried) < Len(requests)
           settled == IF response = "fail" THEN SnapshotFailed(Data, task.stage)
                      ELSE SnapshotLoaded(Data, task.stage, task.year, source, response)
           run == IF task.stage = "hitters"
                  THEN RunPitcherLoad(settled, task.kind, yearValue)
                  ELSE [d |-> settled, task |-> IdleTask]
           common == UNCHANGED <<activeMode, rangeVars, yearValue, envVars,
                                 fetchVars, outVars>>
       IN  IF retry
           THEN /\ tasks' = [tasks EXCEPT ![t].tried =
                                 Append(@, requests[Len(task.tried) + 1])]
                /\ UNCHANGED <<stateByMode, statsEl, savedPlayersEl, snapVars, lbVars>>
                /\ common
                /\ Persist(FALSE)
           ELSE /\ SetData(run.d)
                /\ AfterLoads(t, run, yearValue)
                /\ common
                /\ Persist(run.task.kind = "idle")

(***************************************************************************)
(* Range queries: the view and compare buttons and fetchRangeRows.         *)
(***************************************************************************)
getSelectedKeys(state) ==
    IF state.statsByKey = {} THEN <<>> ELSE state.selectedStatKeys

\* a test against the keys of the other mode
isStatcastKeyForMode_OtherMode(key) == IsStatcastKey(OtherMode(activeMode), key)

isStatcastKeyForMode(key) == IsStatcastKey(activeMode, key)
rangeNeedsStatcast(statKeys) ==
    \E i \in 1..Len(statKeys) : IsStatcastKey(activeMode, statKeys[i])

\* dates are <<year, month * 100 + day>>
getSeasonFallbackRange(year) == [start |-> <<year, 301>>, end |-> <<year, 1130>>]
NoParams == [start |-> NoDate, end |-> NoDate]
getRangeParams ==
    IF rangeStart = NoDate \/ rangeEnd = NoDate THEN NoParams
    ELSE [start |-> rangeStart, end |-> rangeEnd]

\* cacheKey of fetchRangeRows; the joined string is told apart by its parts
RangeCacheKey(playerIds, statKeys, params) ==
    <<activeMode, yearValue, params.start, params.end,
      IF rangeNeedsStatcast(statKeys) THEN "statcast" ELSE "basic", playerIds>>

\* the rows the range endpoint answers for the request of a key
RangeRows(key) == [rows |-> key]

\* renderMessage / renderAsciiTable on the output element of the handler
SetOutput(kind, shown) ==
    IF kind = "view"
    THEN outputPlayer' = shown /\ UNCHANGED outputCompare
    ELSE outputCompare' = shown /\ UNCHANGED outputPlayer

\* a catch that falls back to the table of the season rows
rangeErrorOutput_SeasonTable == "table"

\* what the catch of the two click handlers shows for an error of
\* fetchRangeRows
rangeErrorOutput == "error"

\* a click handler from its try to its first request, or to its end.
\* `chosen` is its check of the players, `found` whether the season dataset
\* has a row to show.
RangeClick(kind, playerIds, chosen, found) ==
    LET statKeys == getSelectedKeys(getState)
        params == IF rangeEnabled THEN getRangeParams
                  ELSE getSeasonFallbackRange(yearValue)
        wanted == IF rangeEnabled THEN TRUE
                  ELSE \E i \in 1..Len(statKeys) : isStatcastKeyForMode(statKeys[i])
        cacheKey == RangeCacheKey(playerIds, statKeys, params)
        request == [IdleTask EXCEPT !.kind = kind, !.key = cacheKey]
    IN  IF ~chosen \/ statKeys = <<>>
        THEN /\ SetOutput(kind, "message")
             /\ UNCHANGED tasks
        ELSE IF wanted /\ params = NoParams
        THEN \* fetchRangeRows throws before any request
             /\ SetOutput(kind, rangeErrorOutput)
             /\ UNCHANGED tasks
        ELSE IF wanted /\ cacheKey \notin DOMAIN rangeCache
        THEN /\ HasFreeTask
             /\ tasks' = Leave(0, request)
             /\ UNCHANGED outVars
        ELSE /\ SetOutput(kind, IF wanted \/ found THEN "table" ELSE "message")
             /\ UNCHANGED tasks

\* click on the view button
ViewClick ==
    /\ RangeClick("view", <<getState.activePlayerId>>,
                  getState.activePlayerId # NoPlayer,
                  getActiveDataset(Data, activeMode) # EmptyDataset)
    /\ UNCHANGED <<selVars, dataVars, lbVars>>
    /\ Persist(FALSE)

\* click on the compare button
CompareClick ==
    /\ RangeClick("compare", getState.activeCompareIds,
                  /\ Len(getState.activeCompareIds) >= 2
                  /\ Len(getState.activeCompareIds) <= MAX_COMPARE_PLAYERS,
                  TRUE)
    /\ UNCHANGED <<selVars, dataVars, lbVars>>
    /\ Persist(FALSE)

\* the range request of a suspended click handler settles: with the rows, or
\* with a response that is not ok
RangeFetchDone(t, ok) ==
    /\ tasks[t].kind \in {"view", "compare"}
    /\ tasks' = [tasks EXCEPT ![t] = IdleTask]
    /\ rangeCache' = IF ok THEN MapSet(rangeCache, tasks[t].key, RangeRows(tasks[t].key))
                     ELSE rangeCache
    /\ SetOutput(tasks[t].kind, IF ok THEN "table" ELSE rangeErrorOutput)
    /\ UNCHANGED <<selVars, yearValue, envVars, snapVars, leaderboardStatcastCache, lbVars>>
    /\ Persist(FALSE)

(***************************************************************************)
(* Leaderboard: picking a stat and the statcast request.                   *)
(***************************************************************************)
\* click on a row of the stat search results: selectLeaderboardStat
LeaderboardStatClick(statKey) ==
    /\ statKey \in getState.statsByKey
    /\ LET selected == [Lb EXCEPT !.active = statKey,
                                  !.byMode[activeMode].statKey = statKey]
           render == renderLeaderboard(selected, activeMode, yearValue, getState,
                         getActiveDataset(Data, activeMode), leaderboardStatcastCache,
                         statKey)
       IN  /\ CanLeave(0, render.task)
           /\ tasks' = Leave(0, render.task)
           /\ SetLb(render.lb)
           /\ UNCHANGED <<selVars, dataVars, outVars>>
           /\ Persist(render.task.kind = "idle")

\* the statcast request of a suspended renderLeaderboard settles
LeaderboardFetchDone(t, ok) ==
    /\ tasks[t].kind = "leaderboard"
    /\ tasks' = [tasks EXCEPT ![t] = IdleTask]
    /\ LET cacheKey == tasks[t].key
           statKey == cacheKey[3]
       IN  IF ok
           THEN /\ leaderboardStatcastCache' =
                       MapSet(leaderboardStatcastCache, cacheKey, StatcastRows(cacheKey))
                /\ SetLb(finishLeaderboard(Lb, activeMode, yearValue, statKey,
                                           StatcastRows(cacheKey)))
           ELSE /\ UNCHANGED leaderboardStatcastCache
                /\ SetLb(persistLeaderboardState([Lb EXCEPT !.output =
                                                      MessageOutput(FetchFailed)],
                                                 activeMode, yearValue, statKey))
    /\ UNCHANGED <<selVars, yearValue, envVars, snapVars, rangeCache, outVars>>
    /\ Persist(TRUE)

(***************************************************************************)
(* The pitcher role of the leaderboard and the inputs of the range.        *)
(***************************************************************************)
\* click on one of the two role buttons: setPitcherLeaderboardRole(role)
PitcherRoleClick(role) ==
    LET chosen == [Lb EXCEPT !.byMode["pitchers"].pitcherRole = normalizePitcherRole(role)]
        render == IF activeMode = "pitchers" /\ activeLeaderboardStat # NoStat
                  THEN renderLeaderboard(chosen, activeMode, yearValue, getState,
                           getActiveDataset(Data, activeMode),
                           leaderboardStatcastCache, activeLeaderboardStat)
                  ELSE [lb |-> chosen, task |-> IdleTask]
    IN  /\ CanLeave(0, render.task)
        /\ tasks' = Leave(0, render.task)
        /\ SetLb(render.lb)
        /\ UNCHANGED <<selVars, dataVars, outVars>>
        /\ Persist(render.task.kind = "idle")

\* change of the range checkbox: updateStatsLimit, which runs
\* enforceRangeSelections on getState(), and persistNow
RangeEnabledChange ==
    /\ rangeEnabled' = ~rangeEnabled
    /\ stateByMode' = [stateByMode EXCEPT
           ![activeMode] = enforceRangeSelections(@, rangeEnabled')]
    /\ statsEl' = UncheckSeasonOnly(statsEl, getState, rangeEnabled')
    /\ UNCHANGED <<activeMode, savedPlayersEl, rangeStart, rangeEnd, dataVars,
                   lbVars, outVars, tasks>>
    /\ Persist(TRUE)

\* schedulePersist without its look at chrome.storage.local
schedulePersist_NoGuard ==
    /\ persistTimer' = TRUE
    /\ UNCHANGED <<hasStorage, storageAnswers, storage, writesInWindow, lastStorage>>

\* schedulePersist: the timer is set, in place of one that has not fired
schedulePersist ==
    /\ persistTimer' = hasStorage
    /\ UNCHANGED <<hasStorage, storageAnswers, storage, writesInWindow, lastStorage>>

\* change of the start date input
RangeStartChange(date) ==
    /\ date # rangeStart
    /\ rangeStart' = date
    /\ UNCHANGED <<activeMode, stateByMode, savedPlayersEl, statsEl, rangeEnabled,
                   rangeEnd, dataVars, lbVars, outVars, tasks>>
    /\ schedulePersist

\* change of the end date input
RangeEndChange(date) ==
    /\ date # rangeEnd
    /\ rangeEnd' = date
    /\ UNCHANGED <<activeMode, stateByMode, savedPlayersEl, statsEl, rangeEnabled,
                   rangeStart, dataVars, lbVars, outVars, tasks>>
    /\ schedulePersist

\* the timer of schedulePersist fires, 50 ms after it was set
PersistTimerFires ==
    /\ persistTimer
    /\ persistTimer' = FALSE
    /\ UNCHANGED <<selVars, dataVars, lbVars, outVars, tasks, hasStorage, storageAnswers>>
    /\ \E answer \in storageAnswers : storageSet(answer)

\* 50 ms pass in which nothing is written: a timer that was set has fired
WindowElapses ==
    /\ ~persistTimer
    /\ writesInWindow > 0
    /\ writesInWindow' = 0
    /\ UNCHANGED <<selVars, dataVars, lbVars, outVars, tasks, hasStorage,
                   storageAnswers, storage, persistTimer, lastStorage>>

(***************************************************************************)
(* Start of the popup: init and loadPersistedState.                        *)
(***************************************************************************)
\* the values loadPersistedState reads and writes, as one record
Mem ==
    [year |-> yearValue,
     mode |-> activeMode,
     rangeEnabled |-> rangeEnabled,
     rangeStart |-> rangeStart,
     rangeEnd |-> rangeEnd,
     states |-> stateByMode,
     leaderboard |-> leaderboardStateByMode,
     active |-> activeLeaderboardStat]

\* their values when the script has run its declarations
FreshMem ==
    [year |-> BUNDLED_YEAR,
     mode |-> "hitters",
     rangeEnabled |-> FALSE,
     rangeStart |-> NoDate,
     rangeEnd |-> NoDate,
     states |-> [m \in Modes |-> EmptyModeState],
     leaderboard |-> FreshLeaderboardState,
     active |-> NoStat]

\* forEach((id) => { if (typeof id === "number") set.add(id) }), and the
\* same for the keys: null is the one value that is no number and no string
RECURSIVE addAll(_, _)
addAll(set, items) ==
    IF items = <<>> THEN set
    ELSE addAll(IF Head(items) # 0 THEN SetAdd(set, Head(items)) ELSE set,
                Tail(items))

\* restoreModeState that leaves activeCompareIds as they are
restoreModeState_KeepsCompare(state, saved) ==
    [state EXCEPT
        !.savedPlayers = saved.savedPlayers,
        !.activePlayerId = saved.activePlayerId,
        !.selectedStatKeys = addAll(<<>>, saved.selectedStatKeys)]

restoreModeState(state, saved) ==
    [state EXCEPT
        !.savedPlayers = saved.savedPlayers,
        !.activePlayerId = IF saved.activePlayerId # NoPlayer
                           THEN saved.activePlayerId ELSE NoPlayer,
        !.activeCompareIds = addAll(<<>>, saved.activeCompareIds),
        !.selectedStatKeys = addAll(<<>>, saved.selectedStatKeys)]

\* normalizeLeaderboardState of an object
normalizeLeaderboardState(saved) ==
    [statKey |-> IF saved.statKey # NoStat THEN saved.statKey ELSE NoStat,
     output |-> saved.output,
     year |-> IF saved.year # 0 THEN saved.year ELSE 0,
     pitcherRole |-> IF saved.pitcherRole # NoRole THEN saved.pitcherRole ELSE NoRole]

\* the promise around chrome.storage.local.get rejects for lastError and for
\* an exception of the call; the catch of loadPersistedState ends both
getOutcome(answer) == IF answer = "ok" THEN "ok" ELSE "caught"

\* a test that looks for a payload only
payloadRefused_AnyVersion(payload) == payload = NoPayload

\* !payload || payload.version !== 1
payloadRefused(payload) ==
    payload = NoPayload \/ payload.version # STORAGE_VERSION

\* loadPersistedState after its await: `answer` is how chrome.storage.local
\* .get ended, `payload` what is stored under STORAGE_KEY
loadPersistedState(mem, answer, payload) ==
    IF answer # "ok" THEN mem
    ELSE IF payloadRefused(payload) THEN mem
    ELSE LET leaderboard ==
                 [m \in Modes |->
                     LET normal == normalizeLeaderboardState(payload.leaderboard[m])
                     IN  IF m = "pitchers"
                         THEN [normal EXCEPT !.pitcherRole = normalizePitcherRole(@)]
                         ELSE normal]
         IN  [year |-> IF payload.year # 0 THEN payload.year ELSE mem.year,
              mode |-> payload.mode,
              rangeEnabled |-> payload.rangeEnabled,
              rangeStart |-> payload.rangeStart,
              rangeEnd |-> payload.rangeEnd,
              states |-> [m \in Modes |->
                             restoreModeState(mem.states[m], payload.modes[m])],
              leaderboard |-> leaderboard,
              active |-> leaderboard[payload.mode].statKey]

SetMem(mem) ==
    /\ yearValue' = mem.year
    /\ activeMode' = mem.mode
    /\ rangeEnabled' = mem.rangeEnabled
    /\ rangeStart' = mem.rangeStart
    /\ rangeEnd' = mem.rangeEnd
    /\ stateByMode' = mem.states
    /\ leaderboardStateByMode' = mem.leaderboard
    /\ activeLeaderboardStat' = mem.active

\* init waits for chrome.storage.local.get, or where there is no storage for
\* the first request of loadSnapshot
InitTask ==
    IF hasStorage THEN [IdleTask EXCEPT !.kind = "init", !.stage = "storage"]
    ELSE Suspended("init", "hitters", BUNDLED_YEAR)

\* the popup is closed and opened again: the script starts anew, the storage
\* keeps what it holds
Reopen ==
    /\ SetMem(FreshMem)
    /\ savedPlayersEl' = <<>>
    /\ statsEl' = NoStatsEl
    /\ snapshotsByYear' = EmptyMap
    /\ pitcherSnapshotsByYear' = EmptyMap
    /\ activePlayers' = EmptyDataset
    /\ activePitchers' = EmptyDataset
    /\ activeMetaByMode' = [m \in Modes |-> NullMeta]
    /\ rangeCache' = EmptyMap
    /\ leaderboardStatcastCache' = EmptyMap
    /\ leaderboardOutput' = NoOutput
    /\ clearOutputs
    /\ tasks' = [NoTasks EXCEPT ![1] = InitTask]
    /\ persistTimer' = FALSE
    /\ lastStorage' = NoAccess
    /\ UNCHANGED <<envVars, hasStorage, storageAnswers, storage, writesInWindow>>

\* chrome.storage.local.get of init answers: the rest of loadPersistedState,
\* then init up to the first request of loadSnapshot
StorageGetDone(t, answer) ==
    /\ tasks[t].kind = "init"
    /\ tasks[t].stage = "storage"
    /\ answer \in storageAnswers
    /\ SetMem(loadPersistedState(Mem, answer, storage))
    /\ savedPlayersEl' = renderSelected(stateByMode', activeMode')
    /\ tasks' = [tasks EXCEPT ![t] = Suspended("init", "hitters", yearValue')]
    /\ lastStorage' = [op |-> "get", outcome |-> getOutcome(answer)]
    /\ UNCHANGED <<statsEl, envVars, snapVars, fetchVars, leaderboardOutput, outVars,
                   hasStorage, storageAnswers, storage, persistTimer, writesInWindow>>

\* a snapshot request of init settles; after the two loads init calls
\* applyMode(activeMode), which waits for the catalog of the mode
InitFetchDone(t, response) ==
    /\ tasks[t].kind = "init"
    /\ tasks[t].stage \in Modes
    /\ response \in {"object", "array", "fail"}
    /\ LET task == tasks[t]
           source == task.tried[Len(task.tried)]
           requests == snapshotRequests(task.year)
           retry == response = "fail" /\ Len(task.tried) < Len(requests)
           settled == IF response = "fail" THEN SnapshotFailed(Data, task.stage)
                      ELSE SnapshotLoaded(Data, task.stage, task.year, source, response)
           run == IF task.stage = "hitters"
                  THEN RunPitcherLoad(settled, task.kind, yearValue)
                  ELSE [d |-> settled, task |-> IdleTask]
           applyMode == [IdleTask EXCEPT !.kind = "applyMode", !.mode = activeMode]
       IN  IF retry
           THEN /\ tasks' = [tasks EXCEPT ![t].tried =
                                 Append(@, requests[Len(task.tried) + 1])]
                /\ UNCHANGED snapVars
           ELSE /\ SetData(run.d)
                /\ tasks' = [tasks EXCEPT ![t] = IF run.task.kind = "idle"
                                                 THEN applyMode ELSE run.task]
    /\ UNCHANGED <<selVars, yearValue, envVars, fetchVars, lbVars, outVars>>
    /\ Persist(FALSE)

(***************************************************************************)
(* SpecLoad: a session that started with no source reachable, so that     *)
(* nothing is cached yet, and year changes while loads are in flight.      *)
(***************************************************************************)
\* nothing cached, nothing active
NoData ==
    /\ snapshotsByYear = EmptyMap
    /\ pitcherSnapshotsByYear = EmptyMap
    /\ activePlayers = EmptyDataset
    /\ activePitchers = EmptyDataset
    /\ activeMetaByMode = [m \in Modes |-> NullMeta]
    /\ rangeCache = EmptyMap
    /\ leaderboardStatcastCache = EmptyMap
    /\ seasonRows = DefaultRows
    /\ NoCall

LoadInit ==
    /\ SelectionInit("hitters")
    /\ yearValue \in Years
    /\ localSnapshots \in BOOLEAN
    /\ sourceStatus = AllSourcesUp
    /\ NoData
    /\ NoStorage
    /\ tasks = NoTasks

LoadNext ==
    \/ \E year \in Years : YearChange(year)
    \/ \E t \in TaskIds, response \in {"object", "fail"} :
           SnapshotFetchDone(t, response)

SpecLoad == LoadInit /\ [][LoadNext]_vars

(***************************************************************************)
(* SpecSeason: one load at a time, in sessions where a source answers all  *)
(* requests for a season the same way: with a payload (an object in some   *)
(* sessions, a bare array in the others) or not at all.                    *)
(***************************************************************************)
SeasonInit ==
    /\ SelectionInit("hitters")
    /\ yearValue \in Years
    /\ localSnapshots \in BOOLEAN
    /\ \E format \in {"object", "array"} :
           sourceStatus \in [Years -> [Sources -> {format, "fail"}]]
    /\ NoData
    /\ NoStorage
    /\ tasks = NoTasks

\* the year select changes while no load is in flight
SeasonYearChange(year) == NoneSuspended /\ YearChange(year)

\* the request of the load in flight settles as its source answers
SeasonFetchDone(t) ==
    /\ tasks[t].kind = "year"
    /\ SnapshotFetchDone(t, sourceStatus[tasks[t].year][tasks[t].tried[Len(tasks[t].tried)]])

SeasonNext ==
    \/ \E year \in Years : SeasonYearChange(year)
    \/ \E t \in TaskIds : SeasonFetchDone(t)

SpecSeason == SeasonInit /\ [][SeasonNext]_vars

(***************************************************************************)
(* Sessions with two saved hitters, both compared, the first one active,   *)
(* one stat ticked and a date range entered.                               *)
(***************************************************************************)
\* stat 1 is a season stat, stat 3 a statcast stat; both support ranges
FetchStats == {1, 3}

FetchSelection(statKey) ==
    /\ activeMode = "hitters"
    /\ stateByMode = [m \in Modes |->
           IF m = "hitters"
           THEN [LoadedModeState EXCEPT !.savedPlayers = <<1, 2>>,
                                        !.activePlayerId = 1,
                                        !.activeCompareIds = <<1, 2>>,
                                        !.selectedStatKeys = <<statKey>>]
           ELSE EmptyModeState]
    /\ savedPlayersEl = <<1, 2>>
    /\ statsEl = [mode |-> "hitters", checked |-> {statKey}]
    /\ rangeStart = <<BUNDLED_YEAR, 401>>
    /\ rangeEnd = <<BUNDLED_YEAR, 430>>
    /\ LeaderboardInit
    /\ outputPlayer = ""
    /\ outputCompare = ""

(***************************************************************************)
(* SpecFetch: the user changes the year, views the active player and picks *)
(* the leaderboard stat while earlier requests are still in flight.        *)
(***************************************************************************)
FetchInit ==
    /\ FetchSelection(3)
    /\ rangeEnabled = TRUE
    /\ DataInit
    /\ NoStorage
    /\ tasks = NoTasks

FetchNext ==
    \/ \E year \in Years : YearChange(year)
    \/ \E t \in TaskIds : SnapshotFetchDone(t, "object")
    \/ ViewClick
    \/ \E t \in TaskIds, ok \in BOOLEAN : RangeFetchDone(t, ok)
    \/ LeaderboardStatClick(3)
    \/ \E t \in TaskIds, ok \in BOOLEAN : LeaderboardFetchDone(t, ok)

SpecFetch == FetchInit /\ [][FetchNext]_vars

(***************************************************************************)
(* SpecRepeat: the same session with a user who waits for each answer      *)
(* before the next click or change, and so repeats earlier requests.       *)
(***************************************************************************)
RepeatInit ==
    /\ \E statKey \in FetchStats : FetchSelection(statKey)
    /\ rangeEnabled \in BOOLEAN
    /\ DataInit
    /\ NoStorage
    /\ tasks = NoTasks

RepeatNext ==
    \/ \E year \in Years : NoneSuspended /\ YearChange(year)
    \/ \E t \in TaskIds : SnapshotFetchDone(t, "object")
    \/ NoneSuspended /\ ViewClick
    \/ NoneSuspended /\ CompareClick
    \/ \E t \in TaskIds, ok \in BOOLEAN : RangeFetchDone(t, ok)
    \/ \E statKey \in FetchStats : NoneSuspended /\ LeaderboardStatClick(statKey)
    \/ \E t \in TaskIds, ok \in BOOLEAN : LeaderboardFetchDone(t, ok)

SpecRepeat == RepeatInit /\ [][RepeatNext]_vars

(***************************************************************************)
(* SpecCompare: the compared players are taken out and put back, so that   *)
(* the same players are compared in different orders, each request after   *)
(* the answer to the one before.                                           *)
(***************************************************************************)
CompareInit ==
    /\ \E statKey \in FetchStats : FetchSelection(statKey)
    /\ rangeEnabled \in BOOLEAN
    /\ DataInit
    /\ NoStorage
    /\ tasks = NoTasks

CompareNext ==
    \/ \E player \in {1, 2} : ToggleCompareClick(player)
    \/ NoneSuspended /\ CompareClick
    \/ NoneSuspended /\ ViewClick
    \/ \E t \in TaskIds, ok \in BOOLEAN : RangeFetchDone(t, ok)

SpecCompare == CompareInit /\ [][CompareNext]_vars

(***************************************************************************)
(* SpecOrder: every order of adding, choosing, comparing and removing the  *)
(* players of a small list, in the mode the session started in.            *)
(***************************************************************************)
OrderPlayers == 1..NumOrderPlayers

OrderInit ==
    /\ \E mode \in Modes : SelectionInit(mode)
    /\ DataInit
    /\ NoStorage
    /\ tasks = NoTasks

OrderNext ==
    \/ \E p \in OrderPlayers : AddPlayerClick(p)
    \/ \E p \in OrderPlayers : SetActiveClick(p)
    \/ \E p \in OrderPlayers : ToggleCompareClick(p)
    \/ \E p \in OrderPlayers : RemoveClick(p)
    \/ ClearSavedPlayersClick

SpecOrder == OrderInit /\ [][OrderNext]_vars

(***************************************************************************)
(* SpecSel: both modes, with the mode switch and its catalog fetch.        *)
(***************************************************************************)
SelPlayers == 1..NumSelPlayers

SelInit ==
    /\ SelectionInit("hitters")
    /\ DataInit
    /\ NoStorage
    /\ tasks = NoTasks

SelNext ==
    \/ \E p \in SelPlayers : AddPlayerClick(p)
    \/ \E p \in SelPlayers, mode \in Modes : RosterAddClick(mode, p)
    \/ \E p \in SelPlayers : SetActiveClick(p)
    \/ \E p \in SelPlayers : ToggleCompareClick(p)
    \/ \E p \in SelPlayers : RemoveClick(p)
    \/ ClearSavedPlayersClick
    \/ \E mode \in Modes : ModeChange(mode)
    \/ \E t \in TaskIds, ok \in BOOLEAN : ConfigFetchDone(t, ok)

SpecSel == SelInit /\ [][SelNext]_vars

(***************************************************************************)
(* SpecCaps: a user who fills the lists up to their capacities and beyond. *)
(* Players are added in the order of their ids and the last pill is the    *)
(* one chosen or removed; stats are ticked in the order of their keys.     *)
(***************************************************************************)
CapPlayers == 1..NumCapPlayers

\* the next player of the dataset not yet saved in `mode`, and a saved one
CapAddChoices(mode) ==
    LET saved == stateByMode[mode].savedPlayers
    IN  {p \in CapPlayers : p = Len(saved) + 1 \/ (Len(saved) > 0 /\ p = saved[1])}

CapLastPill == {p \in CapPlayers : Len(savedPlayersEl) > 0
                                    /\ p = savedPlayersEl[Len(savedPlayersEl)]}

\* the first pill not compared yet, and the one compared last
CapCompareChoices ==
    LET compared == getState.activeCompareIds
    IN  {p \in CapPlayers :
            \/ p = Len(compared) + 1
            \/ Len(compared) > 0 /\ p = compared[Len(compared)]}

\* the first box not ticked yet, the one ticked last, and the disabled one
CapStatChoices ==
    LET selected == getState.selectedStatKeys
    IN  {k \in CatalogKeys :
            \/ k = Len(selected) + 1
            \/ Len(selected) > 0 /\ k = selected[Len(selected)]}

CapsInit ==
    /\ \E mode \in Modes : SelectionInit(mode)
    /\ DataInit
    /\ NoStorage
    /\ tasks = NoTasks

CapsNext ==
    \/ \E p \in CapAddChoices(activeMode) : AddPlayerClick(p)
    \/ \E p \in CapAddChoices(OtherMode(activeMode)) :
           RosterAddClick(OtherMode(activeMode), p)
    \/ \E p \in CapLastPill : SetActiveClick(p)
    \/ \E p \in CapCompareChoices : ToggleCompareClick(p)
    \/ \E p \in CapLastPill : RemoveClick(p)
    \/ \E k \in CapStatChoices : StatCheckboxChange(k)
    \/ ClearSavedPlayersClick

SpecCaps == CapsInit /\ [][CapsNext]_vars

(***************************************************************************)
(* Sessions that rank the rows of a dataset on the leaderboard.            *)
(***************************************************************************)
\* a row that passes every filter in both modes, a starter
QualifiedRow ==
    [id |-> 0, team |-> "NYY", qual |-> TRUE, pa |-> 150, g |-> 20,
     gs |-> 10, ip |-> 50, value |-> 2]

\* the rows of the datasets, by what the filters of renderLeaderboard make
\* of them
RowKinds ==
    [qualified |-> QualifiedRow,
     low       |-> [QualifiedRow EXCEPT !.value = 1],
     short     |-> [QualifiedRow EXCEPT !.pa = 149, !.ip = 49, !.value = 3],
     reliever  |-> [QualifiedRow EXCEPT !.gs = 9],
     byInnings |-> [QualifiedRow EXCEPT !.gs = Null, !.ip = 60, !.value = 3],
     noGames   |-> [QualifiedRow EXCEPT !.g = Null, !.gs = Null],
     zeroGames |-> [QualifiedRow EXCEPT !.g = 0, !.gs = 0, !.ip = 0, !.pa = 0],
     shortNoGames |-> [QualifiedRow EXCEPT !.g = Null, !.gs = Null,
                                           !.pa = 149, !.ip = 49, !.value = 3],
     noValue   |-> [QualifiedRow EXCEPT !.value = Null],
     noTeam    |-> [QualifiedRow EXCEPT !.team = "", !.value = 3],
     flagged   |-> [QualifiedRow EXCEPT !.qual = FALSE, !.value = 3]]

\* one row of any kind, or a long run of rows that have a team, a value and
\* no flag
Blocks ==
    [kind : DOMAIN RowKinds, size : {1}]
        \cup [kind : {"qualified", "low", "short", "reliever", "byInnings",
                       "noGames"},
               size : {BigBlock}]

\* the rows of a sequence of blocks, numbered in the order of the dataset
RECURSIVE BlockRows(_)
BlockRows(blocks) ==
    IF blocks = <<>> THEN <<>>
    ELSE LET before == BlockRows(SubSeq(blocks, 1, Len(blocks) - 1))
             block == blocks[Len(blocks)]
         IN  before \o [i \in 1..block.size |->
                           [RowKinds[block.kind] EXCEPT !.id = Len(before) + i]]

BoardDatasets ==
    { BlockRows(blocks) :
        blocks \in UNION { [1..n -> Blocks] : n \in 0..MaxBlocks } }

\* a stat whose higher values are better and one whose lower values are,
\* both read from the snapshot
BoardStats == {1, 2}

BoardInit ==
    /\ \E mode \in Modes : SelectionInit(mode)
    /\ LoadedData
    /\ \E rows \in BoardDatasets : seasonRows = [file \in Files |-> rows]
    /\ NoCall
    /\ NoStorage
    /\ tasks = NoTasks

BoardNext ==
    \/ \E k \in BoardStats : LeaderboardStatClick(k)
    \/ \E role \in {PITCHER_ROLE_STARTERS, PITCHER_ROLE_RELIEVERS} :
           PitcherRoleClick(role)

SpecBoard == BoardInit /\ [][BoardNext]_vars

(***************************************************************************)
(* Sessions with a storage.                                                *)
(***************************************************************************)
\* init has run with this storage: its applyMode has written the state
WithStorage(answers) ==
    /\ hasStorage = TRUE
    /\ storageAnswers = answers
    /\ storage = serializeState
    /\ persistTimer = FALSE
    /\ writesInWindow = 0
    /\ lastStorage = [op |-> "set", outcome |-> "ok"]

\* the dates the user enters
PersistDates == {NoDate, <<BUNDLED_YEAR, 401>>}

\* the script has run its declarations and init waits at its first await
FreshInstance ==
    /\ yearValue = FreshMem.year
    /\ activeMode = FreshMem.mode
    /\ rangeEnabled = FreshMem.rangeEnabled
    /\ rangeStart = FreshMem.rangeStart
    /\ rangeEnd = FreshMem.rangeEnd
    /\ stateByMode = FreshMem.states
    /\ leaderboardStateByMode = FreshMem.leaderboard
    /\ activeLeaderboardStat = FreshMem.active
    /\ savedPlayersEl = <<>>
    /\ statsEl = NoStatsEl
    /\ leaderboardOutput = NoOutput
    /\ outputPlayer = ""
    /\ outputCompare = ""
    /\ localSnapshots = TRUE
    /\ sourceStatus = AllSourcesUp
    /\ NoData
    /\ persistTimer = FALSE
    /\ writesInWindow = 0
    /\ lastStorage = NoAccess
    /\ tasks = [NoTasks EXCEPT ![1] = InitTask]

(***************************************************************************)
(* SpecPersist: a user who adds, chooses, compares and removes players,    *)
(* ticks stats and enters dates, at any pace.                              *)
(***************************************************************************)
PersistPlayers == 1..NumPersistPlayers

PersistInit ==
    /\ SelectionInit("hitters")
    /\ DataInit
    /\ WithStorage({"ok"})
    /\ tasks = NoTasks

PersistNext ==
    \/ \E p \in PersistPlayers : AddPlayerClick(p)
    \/ \E p \in PersistPlayers : SetActiveClick(p)
    \/ \E p \in PersistPlayers : ToggleCompareClick(p)
    \/ \E p \in PersistPlayers : RemoveClick(p)
    \/ ClearSavedPlayersClick
    \/ \E k \in 1..NumPersistStats : StatCheckboxChange(k)
    \/ \E date \in PersistDates : RangeStartChange(date)
    \/ \E date \in PersistDates : RangeEndChange(date)
    \/ PersistTimerFires
    \/ WindowElapses

SpecPersist == PersistInit /\ [][PersistNext]_vars

(***************************************************************************)
(* SpecRestore: the popup is used, closed and opened again.  The storage   *)
(* works; at the first start it is empty or holds what this or another     *)
(* version of the extension has written.                                   *)
(***************************************************************************)
RestorePlayers == 1..NumRestorePlayers

\* a payload with content, written by this version of the extension or
\* with another version number or none (0)
ForeignPayload(version) ==
    [version |-> version,
     year |-> BUNDLED_YEAR - 1,
     mode |-> "pitchers",
     rangeEnabled |-> TRUE,
     rangeStart |-> <<BUNDLED_YEAR, 401>>,
     rangeEnd |-> <<BUNDLED_YEAR, 430>>,
     leaderboard |-> [m \in Modes |->
                         [FreshLeaderboardState[m] EXCEPT !.statKey = 1]],
     modes |-> [m \in Modes |->
                   [savedPlayers |-> <<1>>,
                    activePlayerId |-> 1,
                    activeCompareIds |-> <<1>>,
                    selectedStatKeys |-> <<1>>]]]

RestoreInit ==
    /\ hasStorage = TRUE
    /\ storageAnswers = {"ok"}
    /\ storage \in {NoPayload} \cup
                    {ForeignPayload(version) : version \in 0..(STORAGE_VERSION + 1)}
    /\ FreshInstance

RestoreNext ==
    \/ NoneSuspended /\ Reopen
    \/ \E t \in TaskIds : StorageGetDone(t, "ok")
    \/ \E t \in TaskIds : InitFetchDone(t, "object")
    \/ \E t \in TaskIds : ConfigFetchDone(t, TRUE)
    \/ \E p \in RestorePlayers : NoneSuspended /\ AddPlayerClick(p)
    \/ \E p \in RestorePlayers : NoneSuspended /\ ToggleCompareClick(p)
    \/ NoneSuspended /\ StatCheckboxChange(1)
    \/ \E mode \in Modes : NoneSuspended /\ ModeChange(mode)
    \/ NoneSuspended /\ RangeEnabledChange
    \/ \E date \in PersistDates : NoneSuspended /\ RangeStartChange(date)
    \/ NoneSuspended /\ LeaderboardStatClick(1)
    \/ NoneSuspended /\ PitcherRoleClick(PITCHER_ROLE_RELIEVERS)
    \/ PersistTimerFires
    \/ WindowElapses

SpecRestore == RestoreInit /\ [][RestoreNext]_vars

(***************************************************************************)
(* SpecFaulty: sessions without a storage, and sessions with a storage     *)
(* that starts empty and may fail at any call.                             *)
(***************************************************************************)
FaultyInit ==
    /\ hasStorage \in BOOLEAN
    /\ storageAnswers = StorageAnswers
    /\ storage = NoPayload
    /\ FreshInstance

FaultyNext ==
    \/ NoneSuspended /\ Reopen
    \/ \E t \in TaskIds, answer \in StorageAnswers : StorageGetDone(t, answer)
    \/ \E t \in TaskIds : InitFetchDone(t, "object")
    \/ \E t \in TaskIds : ConfigFetchDone(t, TRUE)
    \/ \E p \in PersistPlayers : NoneSuspended /\ AddPlayerClick(p)
    \/ \E p \in PersistPlayers : NoneSuspended /\ SetActiveClick(p)
    \/ \E p \in PersistPlayers : NoneSuspended /\ ToggleCompareClick(p)
    \/ \E p \in PersistPlayers : NoneSuspended /\ RemoveClick(p)
    \/ NoneSuspended /\ ClearSavedPlayersClick
    \/ NoneSuspended /\ StatCheckboxChange(1)
    \/ \E date \in PersistDates : NoneSuspended /\ RangeStartChange(date)
    \/ PersistTimerFires
    \/ WindowElapses

SpecFaulty == FaultyInit /\ [][FaultyNext]_vars

(***************************************************************************)
(* Functions called on their own: the session rests and the call changes   *)
(* nothing but its result.                                                 *)
(***************************************************************************)
\* the session in which the calls are made
CallSession ==
    /\ SelectionInit("hitters")
    /\ LoadedData
    /\ seasonRows = DefaultRows
    /\ NoStorage
    /\ tasks = NoTasks
    /\ callResult = NoResult

Returns(fn, value) ==
    /\ callResult' = [fn |-> fn, value |-> value]
    /\ UNCHANGED <<selVars, yearValue, localSnapshots, sourceStatus, seasonRows,
                   callArgs, snapVars, fetchVars, lbVars, outVars, persistVars,
                   tasks>>

(***************************************************************************)
(* mergeRangeRowsForKeys and mergeRangeRows.  A row is a function from the *)
(* names of its fields, player_id among them, to their values.             *)
(***************************************************************************)
\* Map.get of an id no row has
NoRow == <<>>

\* new Map(rows.map((row) => [row.player_id, row])).get(playerId): the last
\* row of the id
RowById(rows, playerId) ==
    LET places == { i \in 1..Len(rows) : rows[i]["player_id"] = playerId }
    IN  IF places = {} THEN NoRow
        ELSE rows[CHOOSE i \in places : \A j \in places : j <= i]

\* playerIds.map(merge).filter(Boolean)
MapIds(playerIds, merge(_)) ==
    LET merged == [i \in 1..Len(playerIds) |-> merge(playerIds[i])]
    IN  SelectSeq(merged, LAMBDA row : row # NoRow)

\* a merge that copies every field of the range row
mergeRangeRowsForKeys_CopiesAll(playerIds, rangeRows, seasonRowsArg, statKeys) ==
    LET merge(playerId) ==
            LET seasonRow == RowById(seasonRowsArg, playerId)
                rangeRow == RowById(rangeRows, playerId)
            IN  IF seasonRow = NoRow THEN rangeRow
                ELSE IF rangeRow = NoRow THEN seasonRow
                ELSE [key \in DOMAIN seasonRow \cup DOMAIN rangeRow |->
                         IF key \in DOMAIN rangeRow
                         THEN rangeRow[key] ELSE seasonRow[key]]
    IN  MapIds(playerIds, merge)

mergeRangeRowsForKeys(playerIds, rangeRows, seasonRowsArg, statKeys) ==
    LET merge(playerId) ==
            LET seasonRow == RowById(seasonRowsArg, playerId)
                rangeRow == RowById(rangeRows, playerId)
                \* the keys with rangeRow[key] !== undefined
                copied == { statKeys[i] : i \in 1..Len(statKeys) }
                              \cap DOMAIN rangeRow
            IN  IF seasonRow = NoRow /\ rangeRow = NoRow THEN NoRow
                ELSE IF seasonRow = NoRow THEN rangeRow
                ELSE IF rangeRow = NoRow THEN seasonRow
                ELSE [key \in DOMAIN seasonRow \cup copied |->
                         IF key \in copied THEN rangeRow[key] ELSE seasonRow[key]]
    IN  MapIds(playerIds, merge)

\* a merge in which the season row wins
mergeRangeRows_SeasonWins(playerIds, rangeRows, seasonRowsArg) ==
    LET merge(playerId) ==
            LET seasonRow == RowById(seasonRowsArg, playerId)
                rangeRow == RowById(rangeRows, playerId)
            IN  [key \in DOMAIN seasonRow \cup DOMAIN rangeRow |->
                    IF key \in DOMAIN seasonRow
                    THEN seasonRow[key] ELSE rangeRow[key]]
    IN  MapIds(playerIds, merge)

\* { ...(seasonRow || {}), ...(rangeRow || {}) }
mergeRangeRows(playerIds, rangeRows, seasonRowsArg) ==
    LET merge(playerId) ==
            LET seasonRow == RowById(seasonRowsArg, playerId)
                rangeRow == RowById(rangeRows, playerId)
            IN  [key \in DOMAIN seasonRow \cup DOMAIN rangeRow |->
                    IF key \in DOMAIN rangeRow
                    THEN rangeRow[key] ELSE seasonRow[key]]
    IN  MapIds(playerIds, merge)

\* the calls of the click handlers
MergeForKeysCall ==
    Returns("mergeRangeRowsForKeys",
            mergeRangeRowsForKeys(callArgs.playerIds, callArgs.rangeRows,
                                  callArgs.seasonRows, callArgs.statKeys))

MergeWholeCall ==
    Returns("mergeRangeRows",
            mergeRangeRows(callArgs.playerIds, callArgs.rangeRows,
                           callArgs.seasonRows))

\* rows of the season snapshot have the value 1 in their stat fields, rows of
\* a range response the value 2, or null in the statcast field
MergeRow(playerId, fields) ==
    [key \in {"player_id"} \cup DOMAIN fields |->
        IF key = "player_id" THEN playerId ELSE fields[key]]

FieldChoices(values) ==
    UNION { [keys -> values] : keys \in SUBSET {"hr", "barrelpct"} }

MergeIds == 1..MaxMergeIds

\* one row at most for each id, in the order of the ids
RECURSIVE RowsOf(_, _)
RowsOf(chosen, upTo) ==
    IF upTo = 0 THEN <<>>
    ELSE IF ~chosen[upTo].present THEN RowsOf(chosen, upTo - 1)
    ELSE Append(RowsOf(chosen, upTo - 1), MergeRow(upTo, chosen[upTo].fields))

RowChoices(values) ==
    { RowsOf(chosen, MaxMergeIds) :
        chosen \in [MergeIds ->
                       [present : BOOLEAN, fields : FieldChoices(values)]] }

MergeInit ==
    /\ CallSession
    /\ callArgs \in
           [playerIds : {<<>>, <<1>>, <<MaxMergeIds>>, <<1, MaxMergeIds>>,
                         <<MaxMergeIds, 1>>},
            rangeRows : RowChoices({2, Null}),
            seasonRows : RowChoices({1}),
            statKeys : {<<>>, <<"barrelpct">>, <<"hr", "barrelpct">>}]

MergeNext == MergeForKeysCall \/ MergeWholeCall

SpecMerge == MergeInit /\ [][MergeNext]_vars

(***************************************************************************)
(* normalizeText, levenshtein and fuzzyScore.  A string is the sequence of *)
(* its characters.                                                         *)
(***************************************************************************)
\* the characters of the strings: letters, a capital, a blank, a hyphen
Alphabet == {"a", "b", "A", " ", "-"}

\* String.prototype.toLowerCase
toLowerCase(value) ==
    [i \in 1..Len(value) |-> IF value[i] = "A" THEN "a" ELSE value[i]]

\* the character class [a-z0-9]
IsAlphanumeric(char) == char \in {"a", "b"}

\* the character class \s
IsWhitespace(char) == char = " "

\* value.toLowerCase().replace(/[^a-z0-9]/g, "")
normalizeText(value) == SelectSeq(toLowerCase(value), IsAlphanumeric)

(***************************************************************************)
(* levenshtein called on its own, on the strings that normalizeText leaves *)
(***************************************************************************)
\* a table in which a substitution costs as much as a deletion and an
\* insertion
levenshtein_SubstitutionCostsTwo(a, b) ==
    IF a = b THEN 0
    ELSE IF a = <<>> \/ b = <<>>
    THEN IF Len(a) > Len(b) THEN Len(a) ELSE Len(b)
    ELSE LET Min3(x, y, z) ==
                 IF x <= y /\ x <= z THEN x ELSE IF y <= z THEN y ELSE z
             dp[i \in 0..Len(a), j \in 0..Len(b)] ==
                 IF j = 0 THEN i
                 ELSE IF i = 0 THEN j
                 ELSE LET cost == IF a[i] = b[j] THEN 0 ELSE 2
                      IN  Min3(dp[i - 1, j] + 1, dp[i, j - 1] + 1,
                               dp[i - 1, j - 1] + cost)
         IN  dp[Len(a), Len(b)]

\* the table dp of the two loops, dp[a.length][b.length]
levenshtein(a, b) ==
    IF a = b THEN 0
    ELSE IF a = <<>> \/ b = <<>>
    THEN IF Len(a) > Len(b) THEN Len(a) ELSE Len(b)
    ELSE LET Min3(x, y, z) ==
                 IF x <= y /\ x <= z THEN x ELSE IF y <= z THEN y ELSE z
             dp[i \in 0..Len(a), j \in 0..Len(b)] ==
                 IF j = 0 THEN i
                 ELSE IF i = 0 THEN j
                 ELSE LET cost == IF a[i] = b[j] THEN 0 ELSE 1
                      IN  Min3(dp[i - 1, j] + 1, dp[i, j - 1] + 1,
                               dp[i - 1, j - 1] + cost)
         IN  dp[Len(a), Len(b)]

\* String.prototype.includes
includes(value, part) ==
    \E i \in 0..(Len(value) - Len(part)) :
        SubSeq(value, i + 1, i + Len(part)) = part

\* value.split(/\s+/): the pieces between the runs of whitespace, an empty
\* piece before a run that starts the value and after one that ends it
RECURSIVE split(_)
split(value) ==
    IF \A i \in 1..Len(value) : ~IsWhitespace(value[i]) THEN <<value>>
    ELSE LET first == CHOOSE i \in 1..Len(value) :
                          /\ IsWhitespace(value[i])
                          /\ \A j \in 1..(i - 1) : ~IsWhitespace(value[j])
             after == CHOOSE i \in (first + 1)..(Len(value) + 1) :
                          /\ i = Len(value) + 1 \/ ~IsWhitespace(value[i])
                          /\ \A j \in first..(i - 1) : IsWhitespace(value[j])
         IN  <<SubSeq(value, 1, first - 1)>>
                 \o split(SubSeq(value, after, Len(value)))

\* parts.forEach((part) => best = Math.min(best, levenshtein(part, query)))
RECURSIVE bestOf(_, _, _)
bestOf(best, parts, normalizedQuery) ==
    IF parts = <<>> THEN best
    ELSE LET d == levenshtein(parts[1], normalizedQuery)
         IN  bestOf(IF d < best THEN d ELSE best, Tail(parts), normalizedQuery)

\* a score that looks at the whole name only
fuzzyScore_WholeNameOnly(name, query) ==
    LET normalizedName == normalizeText(name)
        normalizedQuery == normalizeText(query)
    IN  IF normalizedQuery = <<>> THEN Null
        ELSE IF includes(normalizedName, normalizedQuery) THEN 0
        ELSE levenshtein(normalizedName, normalizedQuery)

fuzzyScore(name, query) ==
    LET normalizedName == normalizeText(name)
        normalizedQuery == normalizeText(query)
        pieces == split(toLowerCase(name))
        parts == SelectSeq([i \in 1..Len(pieces) |-> normalizeText(pieces[i])],
                           LAMBDA part : part # <<>>)
    IN  IF normalizedQuery = <<>> THEN Null
        ELSE IF includes(normalizedName, normalizedQuery) THEN 0
        ELSE bestOf(levenshtein(normalizedName, normalizedQuery), parts,
                    normalizedQuery)

\* the call of runSearch and searchStats for one candidate
FuzzyScoreCall ==
    Returns("fuzzyScore", fuzzyScore(callArgs.name, callArgs.query))

Strings(maxLen) == UNION { [1..n -> Alphabet] : n \in 0..maxLen }

ScoreInit ==
    /\ CallSession
    /\ callArgs \in [name : Strings(MaxNameLen), query : Strings(MaxQueryLen)]

ScoreNext == FuzzyScoreCall

SpecScore == ScoreInit /\ [][ScoreNext]_vars

(***************************************************************************)
(* SpecDistance: levenshtein on every pair of three normalized strings.    *)
(***************************************************************************)
\* the calls of levenshtein on the strings a, b and c and on the empty string
LevenshteinCall ==
    LET a == callArgs.a
        b == callArgs.b
        c == callArgs.c
    IN  Returns("levenshtein",
                [aa |-> levenshtein(a, a), ab |-> levenshtein(a, b),
                 ba |-> levenshtein(b, a), bc |-> levenshtein(b, c),
                 ac |-> levenshtein(a, c),
                 emptyB |-> levenshtein(<<>>, b), bEmpty |-> levenshtein(b, <<>>)])

\* the strings normalizeText can leave, of up to MaxEditLen characters
EditStrings == UNION { [1..n -> {"a", "b"}] : n \in 0..MaxEditLen }

DistanceInit ==
    /\ CallSession
    /\ callArgs \in [a : EditStrings, b : EditStrings, c : EditStrings]

DistanceNext == LevenshteinCall

SpecDistance == DistanceInit /\ [][DistanceNext]_vars

(***************************************************************************)
(* runSearch and searchStats: the matches of a query among the players of  *)
(* the dataset, or among the stats of the catalog by their labels.         *)
(***************************************************************************)
\* .slice(0, 50) of runSearch and .slice(0, 25) of searchStats
PLAYER_RESULTS == 50
STAT_RESULTS == 25

\* String.prototype.trim
RECURSIVE trim(_)
trim(value) ==
    IF value = <<>> THEN value
    ELSE IF IsWhitespace(value[1]) THEN trim(Tail(value))
    ELSE IF IsWhitespace(value[Len(value)])
    THEN trim(SubSeq(value, 1, Len(value) - 1))
    ELSE value

\* a limit of 2 for every query
maxDistance_AlwaysTwo(normalizedQuery) == 2

maxDistance(normalizedQuery) ==
    IF Len(normalizedQuery) <= 3 THEN 2
    ELSE IF Len(normalizedQuery) \div 2 > 2
    THEN Len(normalizedQuery) \div 2 ELSE 2

\* the score of the callback of map: 0 for a name that contains the query,
\* the fuzzy score for a query of more than 2 characters, else null
entryScore(name, query) ==
    IF includes(normalizeText(name), normalizeText(query)) THEN 0
    ELSE IF Len(normalizeText(query)) > 2 THEN fuzzyScore(name, query)
    ELSE Null

\* the collation weight of a character: blank, punctuation, letters
CharWeight(char) ==
    IF char = " " THEN 0 ELSE IF char = "-" THEN 1
    ELSE IF char \in {"a", "A"} THEN 2 ELSE 3

\* the first place at which two strings differ under `Key`, 0 if none
FirstDifference(a, b, Key(_)) ==
    LET shorter == IF Len(a) < Len(b) THEN Len(a) ELSE Len(b)
        places == { i \in 1..shorter : Key(a[i]) # Key(b[i]) }
    IN  IF places = {} THEN 0
        ELSE CHOOSE i \in places : \A j \in places : i <= j

\* a.localeCompare(b) < 0: by the letters first, a prefix before the longer
\* string, and for the same letters the lower case first
localeCompareBefore(a, b) ==
    LET place == FirstDifference(a, b, CharWeight)
        IsUpper(char) == IF char = "A" THEN 1 ELSE 0
        case == FirstDifference(a, b, IsUpper)
    IN  IF place # 0 THEN CharWeight(a[place]) < CharWeight(b[place])
        ELSE IF Len(a) # Len(b) THEN Len(a) < Len(b)
        ELSE case # 0 /\ IsUpper(a[case]) < IsUpper(b[case])

\* a.score - b.score || a.name.localeCompare(b.name) is negative
entryBefore(a, b) ==
    IF a.score # b.score THEN a.score < b.score
    ELSE localeCompareBefore(a.name, b.name)

RECURSIVE insertEntry(_, _)
insertEntry(sorted, entry) ==
    IF sorted = <<>> THEN <<entry>>
    ELSE IF entryBefore(entry, sorted[Len(sorted)])
    THEN Append(insertEntry(SubSeq(sorted, 1, Len(sorted) - 1), entry),
                sorted[Len(sorted)])
    ELSE Append(sorted, entry)

RECURSIVE sortEntries(_)
sortEntries(entries) ==
    IF entries = <<>> THEN <<>>
    ELSE insertEntry(sortEntries(SubSeq(entries, 1, Len(entries) - 1)),
                     entries[Len(entries)])

\* map, filter, sort and slice of the two searches; the entities are
\* players with their names or stats with their labels
searchMatches(entities, query, limit) ==
    LET normalizedQuery == normalizeText(query)
        entries == [i \in 1..Len(entities) |->
                       [id |-> entities[i].id, name |-> entities[i].name,
                        score |-> entryScore(entities[i].name, query)]]
        kept == SelectSeq(entries, LAMBDA entry :
                    entry.score # Null /\ entry.score <= maxDistance(normalizedQuery))
        sorted == sortEntries(kept)
        first == SubSeq(sorted, 1, IF Len(sorted) < limit THEN Len(sorted) ELSE limit)
    IN  [i \in 1..Len(first) |-> [id |-> first[i].id, name |-> first[i].name]]

\* what a search leaves in its results element
NoTerm == [shown |-> "no term", matches |-> <<>>]
Matches(matches) == [shown |-> "matches", matches |-> matches]

runSearch(dataset, input) ==
    LET query == trim(input)
    IN  IF query = <<>> \/ normalizeText(query) = <<>> THEN NoTerm
        ELSE Matches(searchMatches(dataset, query, PLAYER_RESULTS))

\* searchStats for a catalog that is loaded
searchStats(statsConfig, input) ==
    LET query == trim(input)
    IN  IF query = <<>> \/ normalizeText(query) = <<>> THEN NoTerm
        ELSE Matches(searchMatches(statsConfig, query, STAT_RESULTS))

RunSearchCall ==
    Returns("runSearch", runSearch(callArgs.entities, callArgs.query))

SearchStatsCall ==
    Returns("searchStats", searchStats(callArgs.entities, callArgs.query))

\* names of letters, and names with a capital, a blank or a hyphen
SearchNames ==
    UNION { [1..n -> {"a", "b"}] : n \in 1..MaxSearchLen }
        \cup { <<"A">>, <<"A", "b">>, <<"a", " ", "b">>, <<"b", "-", "a">> }

\* queries of up to MaxSearchLen characters, and two long ones
SearchQueries ==
    UNION { [1..n -> {"a", "b", " "}] : n \in 0..MaxSearchLen }
        \cup { [i \in 1..(2 * MaxSearchLen) |-> "a"],
                [i \in 1..(2 * MaxSearchLen) |-> IF i % 2 = 1 THEN "a" ELSE "b"] }

\* one entity of any name, or a long run of namesakes at the head of the
\* dataset
SearchBlocks ==
    [name : SearchNames, size : {1}]
        \cup [name : {<<"a">>, <<"a", "b", "b">>, <<"b", "b", "b">>},
               size : {LongRun}]

RECURSIVE SearchEntities(_)
SearchEntities(blocks) ==
    IF blocks = <<>> THEN <<>>
    ELSE LET before == SearchEntities(SubSeq(blocks, 1, Len(blocks) - 1))
             block == blocks[Len(blocks)]
         IN  before \o [i \in 1..block.size |->
                           [id |-> Len(before) + i, name |-> block.name]]

SearchInit ==
    /\ CallSession
    /\ callArgs \in
           [entities : { SearchEntities(blocks) :
                           blocks \in { chosen \in UNION { [1..n -> SearchBlocks] : n \in 0..2 } :
                                          \A i \in 2..Len(chosen) : chosen[i].size = 1 } },
            query : SearchQueries]

SearchNext == RunSearchCall \/ SearchStatsCall

SpecSearch == SearchInit /\ [][SearchNext]_vars

(***************************************************************************)
(* Sessions that restore a leaderboard stat the registry may not have.     *)
(***************************************************************************)
\* a stat key of an older catalog, in no registry of the session
RetiredStat == NumStats + 1

\* what a session with `mode` active and `statKey` on both leaderboards wrote
ConfigPayload(mode, statKey) ==
    [ForeignPayload(STORAGE_VERSION) EXCEPT
        !.year = BUNDLED_YEAR,
        !.mode = mode,
        !.rangeEnabled = FALSE,
        !.leaderboard = [m \in Modes |->
                            [FreshLeaderboardState[m] EXCEPT !.statKey = statKey]]]

\* stats of the leaderboard: a plain one, a statcast one of each mode, the
\* retired one
ConfigStats == {1, 3, 4, RetiredStat}

ConfigInit ==
    /\ hasStorage = TRUE
    /\ storageAnswers = {"ok"}
    /\ storage \in { ConfigPayload(mode, statKey) :
                        mode \in Modes, statKey \in ConfigStats }
    /\ FreshInstance

ConfigNext ==
    \/ NoneSuspended /\ Reopen
    \/ \E t \in TaskIds : StorageGetDone(t, "ok")
    \/ \E t \in TaskIds : InitFetchDone(t, "object")
    \/ \E t \in TaskIds, ok \in BOOLEAN : ConfigFetchDone(t, ok)
    \/ \E mode \in Modes : NoneSuspended /\ ModeChange(mode)
    \/ \E k \in ConfigStats : NoneSuspended /\ LeaderboardStatClick(k)
    \/ \E t \in TaskIds, ok \in BOOLEAN : LeaderboardFetchDone(t, ok)
    \/ \E role \in {PITCHER_ROLE_STARTERS, PITCHER_ROLE_RELIEVERS} :
           NoneSuspended /\ PitcherRoleClick(role)

SpecConfig == ConfigInit /\ [][ConfigNext]_vars

(***************************************************************************)
(* SpecRole: sessions that start from a payload with any role on either    *)
(* leaderboard, with a storage that may refuse a write, and rank a dataset *)
(* of starters, relievers and pitchers without a role in both modes.       *)
(***************************************************************************)
\* the roles a payload can hold: none, the two of this version, another one
PayloadRoles == {NoRole, PITCHER_ROLE_STARTERS, PITCHER_ROLE_RELIEVERS, "closers"}

RolePayload(mode, hitterRole, pitcherRole) ==
    [ForeignPayload(STORAGE_VERSION) EXCEPT
        !.year = BUNDLED_YEAR,
        !.mode = mode,
        !.rangeEnabled = FALSE,
        !.leaderboard =
            [m \in Modes |->
                [EmptyLeaderboardState EXCEPT
                    !.pitcherRole = IF m = "hitters" THEN hitterRole
                                    ELSE pitcherRole]]]

\* a starter, a reliever, a pitcher without a role and a row without a value
RoleRows ==
    BlockRows(<<[kind |-> "qualified", size |-> 1], [kind |-> "reliever", size |-> 1],
                [kind |-> "noGames", size |-> 1], [kind |-> "noValue", size |-> 1]>>)

\* a stat read from the snapshot and one that is a statcast stat in both modes
RoleStats == {1, 12}

RoleInit ==
    /\ hasStorage = TRUE
    /\ storageAnswers = {"ok", "error"}
    /\ storage \in { RolePayload(mode, hitterRole, pitcherRole) :
                        mode \in Modes,
                        hitterRole \in {NoRole, PITCHER_ROLE_RELIEVERS},
                        pitcherRole \in PayloadRoles }
    /\ yearValue = FreshMem.year
    /\ activeMode = FreshMem.mode
    /\ rangeEnabled = FreshMem.rangeEnabled
    /\ rangeStart = FreshMem.rangeStart
    /\ rangeEnd = FreshMem.rangeEnd
    /\ stateByMode = FreshMem.states
    /\ leaderboardStateByMode = FreshMem.leaderboard
    /\ activeLeaderboardStat = FreshMem.active
    /\ savedPlayersEl = <<>>
    /\ statsEl = NoStatsEl
    /\ leaderboardOutput = NoOutput
    /\ outputPlayer = ""
    /\ outputCompare = ""
    /\ localSnapshots = TRUE
    /\ sourceStatus = AllSourcesUp
    /\ snapshotsByYear = EmptyMap
    /\ pitcherSnapshotsByYear = EmptyMap
    /\ activePlayers = EmptyDataset
    /\ activePitchers = EmptyDataset
    /\ activeMetaByMode = [m \in Modes |-> NullMeta]
    /\ rangeCache = EmptyMap
    /\ leaderboardStatcastCache = EmptyMap
    /\ seasonRows = [file \in Files |-> RoleRows]
    /\ NoCall
    /\ persistTimer = FALSE
    /\ writesInWindow = 0
    /\ lastStorage = NoAccess
    /\ tasks = [NoTasks EXCEPT ![1] = InitTask]

RoleNext ==
    \/ \E t \in TaskIds : StorageGetDone(t, "ok")
    \/ \E t \in TaskIds : InitFetchDone(t, "object")
    \/ \E t \in TaskIds : ConfigFetchDone(t, TRUE)
    \/ \E mode \in Modes : ModeChange(mode)
    \/ \E k \in RoleStats : NoneSuspended /\ LeaderboardStatClick(k)
    \/ \E t \in TaskIds : LeaderboardFetchDone(t, TRUE)
    \/ \E role \in {PITCHER_ROLE_STARTERS, PITCHER_ROLE_RELIEVERS} :
           NoneSuspended /\ PitcherRoleClick(role)

SpecRole == RoleInit /\ [][RoleNext]_vars

(***************************************************************************)
(* SpecModes: sessions that start with nothing stored or from a payload    *)
(* written in pitchers mode, and a user who works on the lists of both     *)
(* modes, with or without range mode, while mode switches are in flight.   *)
(***************************************************************************)
\* what a session in pitchers mode wrote: a saved player and a ticked stat
\* in either mode
ModesPayload(rangeOn) ==
    [ForeignPayload(STORAGE_VERSION) EXCEPT
        !.year = BUNDLED_YEAR,
        !.rangeEnabled = rangeOn,
        !.leaderboard = FreshLeaderboardState]

\* stat 1 supports ranges, stat 2 is a season-only stat
ModesStats == {1, 2}

ModesInit ==
    /\ hasStorage = TRUE
    /\ storageAnswers = {"ok"}
    /\ storage \in {NoPayload} \cup { ModesPayload(rangeOn) : rangeOn \in BOOLEAN }
    /\ FreshInstance

ModesNext ==
    \/ \E t \in TaskIds : StorageGetDone(t, "ok")
    \/ \E t \in TaskIds : InitFetchDone(t, "object")
    \/ \E t \in TaskIds : ConfigFetchDone(t, TRUE)
    \/ \E mode \in Modes : ModeChange(mode)
    \/ AddPlayerClick(1)
    \/ \E mode \in Modes : RosterAddClick(mode, 1)
    \/ SetActiveClick(1)
    \/ ToggleCompareClick(1)
    \/ RemoveClick(1)
    \/ ClearSavedPlayersClick
    \/ \E k \in ModesStats : StatCheckboxChange(k)
    \/ RangeEnabledChange

SpecModes == ModesInit /\ [][ModesNext]_vars

(***************************************************************************)
(* SpecConverge: sessions with a working storage that start with nothing   *)
(* stored or from what an earlier session wrote, and a user who changes    *)
(* the year, the mode, the range parameters, the selections and the        *)
(* leaderboard while requests are pending, succeed or fail.                *)
(***************************************************************************)
\* ten stats that support ranges
ConvergeKeys == <<1, 3, 4, 5, 6, 7, 8, 9, 10, 11>>

\* what a session wrote in which the user ticked a stat for pitchers, went
\* to hitters, turned range mode on and ticked ten stats
ConvergePayload ==
    [version |-> STORAGE_VERSION,
     year |-> BUNDLED_YEAR,
     mode |-> "hitters",
     rangeEnabled |-> TRUE,
     rangeStart |-> NoDate,
     rangeEnd |-> NoDate,
     leaderboard |-> FreshLeaderboardState,
     modes |-> [m \in Modes |->
                   [savedPlayers |-> <<>>,
                    activePlayerId |-> NoPlayer,
                    activeCompareIds |-> <<>>,
                    selectedStatKeys |-> IF m = "hitters" THEN ConvergeKeys
                                         ELSE <<1>>]]]

ConvergeInit ==
    /\ hasStorage = TRUE
    /\ storageAnswers = {"ok"}
    /\ storage \in {NoPayload, ConvergePayload}
    /\ FreshInstance

ConvergeNext ==
    \/ \E t \in TaskIds : StorageGetDone(t, "ok")
    \/ \E t \in TaskIds : InitFetchDone(t, "object")
    \/ \E t \in TaskIds, ok \in BOOLEAN : ConfigFetchDone(t, ok)
    \/ \E mode \in Modes : ModeChange(mode)
    \/ \E year \in Years : NoneSuspended /\ YearChange(year)
    \/ \E t \in TaskIds : SnapshotFetchDone(t, "object")
    \/ NoneSuspended /\ AddPlayerClick(1)
    \/ NoneSuspended /\ RemoveClick(1)
    \/ \E k \in ModesStats : StatCheckboxChange(k)
    \/ RangeEnabledChange
    \/ NoneSuspended /\ RangeStartChange(<<BUNDLED_YEAR, 401>>)
    \/ PersistTimerFires
    \/ NoneSuspended /\ LeaderboardStatClick(1)

SpecConverge == ConvergeInit /\ [][ConvergeNext]_vars

(***************************************************************************)
(* SpecPayload: the popup starts with a storage that holds some payload    *)
(* of version 1, whatever has written it: each mode's entry is well formed *)
(* or has more players, compared players or stats than a selection may     *)
(* hold, or names an active or compared player that is not saved.          *)
(***************************************************************************)
PayloadModeEntries ==
    { [savedPlayers |-> <<1, 2>>, activePlayerId |-> 1,
       activeCompareIds |-> <<2>>, selectedStatKeys |-> <<1>>],
      [savedPlayers |-> [i \in 1..(MAX_SAVED_PLAYERS + 1) |-> i], activePlayerId |-> 1,
       activeCompareIds |-> <<>>, selectedStatKeys |-> <<>>],
      [savedPlayers |-> [i \in 1..(MAX_COMPARE_PLAYERS + 1) |-> i], activePlayerId |-> 1,
       activeCompareIds |-> [i \in 1..(MAX_COMPARE_PLAYERS + 1) |-> i],
       selectedStatKeys |-> <<>>],
      [savedPlayers |-> <<>>, activePlayerId |-> NoPlayer,
       activeCompareIds |-> <<>>,
       selectedStatKeys |-> [i \in 1..(MAX_STATS + 1) |-> i]],
      [savedPlayers |-> <<1>>, activePlayerId |-> 2,
       activeCompareIds |-> <<>>, selectedStatKeys |-> <<>>],
      [savedPlayers |-> <<1>>, activePlayerId |-> 1,
       activeCompareIds |-> <<2>>, selectedStatKeys |-> <<>>] }

StoredPayloads ==
    { [version |-> STORAGE_VERSION,
       year |-> BUNDLED_YEAR,
       mode |-> mode,
       rangeEnabled |-> rangeOn,
       rangeStart |-> NoDate,
       rangeEnd |-> NoDate,
       leaderboard |-> FreshLeaderboardState,
       modes |-> [m \in Modes |-> IF m = "hitters" THEN hitters ELSE pitchers]] :
      mode \in Modes, rangeOn \in BOOLEAN,
      hitters \in PayloadModeEntries, pitchers \in PayloadModeEntries }

PayloadInit ==
    /\ hasStorage = TRUE
    /\ storageAnswers = {"ok"}
    /\ storage \in StoredPayloads
    /\ FreshInstance

PayloadNext ==
    \/ \E t \in TaskIds : StorageGetDone(t, "ok")
    \/ \E t \in TaskIds : InitFetchDone(t, "object")
    \/ \E t \in TaskIds : ConfigFetchDone(t, TRUE)

SpecPayload == PayloadInit /\ [][PayloadNext]_vars

(***************************************************************************)
(* SpecCache: a started session in range mode whose user changes the year, *)
(* the mode and the start date, views the active player and picks the      *)
(* leaderboard stat while earlier requests are still in flight.            *)
(***************************************************************************)
CacheInit ==
    /\ FetchSelection(3)
    /\ rangeEnabled = TRUE
    /\ DataInit
    /\ NoStorage
    /\ tasks = NoTasks

CacheNext ==
    \/ \E year \in Years : YearChange(year)
    \/ \E t \in TaskIds : SnapshotFetchDone(t, "object")
    \/ \E mode \in Modes : ModeChange(mode)
    \/ \E t \in TaskIds : ConfigFetchDone(t, TRUE)
    \/ \E date \in PersistDates : RangeStartChange(date)
    \/ ViewClick
    \/ \E t \in TaskIds : RangeFetchDone(t, TRUE)
    \/ LeaderboardStatClick(3)
    \/ \E t \in TaskIds : LeaderboardFetchDone(t, TRUE)

SpecCache == CacheInit /\ [][CacheNext]_vars

(***************************************************************************)
(* C1: in every state reached by adding, removing, choosing, comparing,    *)
(* ticking stats and clearing, each mode holds at most 10 saved players    *)
(* with pairwise distinct ids, at most 5 compare ids and at most 10 stat   *)
(* keys.                                                                   *)
(***************************************************************************)
C1_SelectionCaps ==
    \A mode \in Modes :
        /\ Len(stateByMode[mode].savedPlayers) <= 10
        /\ NoDuplicates(stateByMode[mode].savedPlayers)
        /\ Len(stateByMode[mode].activeCompareIds) <= 5
        /\ Len(stateByMode[mode].selectedStatKeys) <= 10

\* all three lists of the active mode are full, and the other mode's saved
\* list is full too
C1_Witness ==
    /\ Len(getState.savedPlayers) = 10
    /\ Len(getState.activeCompareIds) = 5
    /\ Len(getState.selectedStatKeys) = 10
    /\ Len(stateByMode[OtherMode(activeMode)].savedPlayers) = 10

(***************************************************************************)
(* C2: in every state reached by user operations, each mode's              *)
(* activePlayerId is null or the id of one of its savedPlayers, and every  *)
(* id of its activeCompareIds is the id of one of its savedPlayers.        *)
(***************************************************************************)
C2_ActiveAndCompareAreSaved ==
    \A mode \in Modes :
        /\ \/ stateByMode[mode].activePlayerId = NoPlayer
           \/ SeqHas(stateByMode[mode].savedPlayers, stateByMode[mode].activePlayerId)
        /\ SeqRange(stateByMode[mode].activeCompareIds)
               \subseteq SeqRange(stateByMode[mode].savedPlayers)

(***************************************************************************)
(* C3: removing a saved player takes exactly that player out of            *)
(* savedPlayers and keeps the order of the others, takes the id out of     *)
(* activeCompareIds and leaves the other compare ids as they were, and     *)
(* makes activePlayerId null exactly when it was the removed id.           *)
(***************************************************************************)
\* `after` is `before` with its one entry p cut out
CutOut(before, after, p) ==
    \E i \in 1..Len(before) :
        /\ before[i] = p
        /\ after = SubSeq(before, 1, i - 1) \o SubSeq(before, i + 1, Len(before))

C3_RemoveStep(p) ==
    LET before == getState
        after == stateByMode'[activeMode]
    IN  /\ CutOut(before.savedPlayers, after.savedPlayers, p)
        /\ IF SeqHas(before.activeCompareIds, p)
           THEN CutOut(before.activeCompareIds, after.activeCompareIds, p)
           ELSE after.activeCompareIds = before.activeCompareIds
        /\ after.activePlayerId =
              IF before.activePlayerId = p THEN NoPlayer ELSE before.activePlayerId
        /\ after.selectedStatKeys = before.selectedStatKeys
        /\ stateByMode'[OtherMode(activeMode)] = stateByMode[OtherMode(activeMode)]

C3_RemoveSaved ==
    [][\A p \in OrderPlayers :
           (RemoveClick(p) /\ SeqHas(getState.savedPlayers, p)) => C3_RemoveStep(p)]_vars

\* the middle one of three saved players, who was the active one and was
\* compared, has been removed: an active id of null beside saved players is
\* left by a removal only
C3_Witness ==
    /\ getState.savedPlayers = <<1, 3>>
    /\ getState.activePlayerId = NoPlayer
    /\ getState.activeCompareIds = <<3, 1>>

(***************************************************************************)
(* C4: once no load is in flight, the active hitters and pitchers datasets *)
(* and their metas are those of the selected year: the cached snapshot of  *)
(* that year if there is one, else the empty dataset that a load leaves    *)
(* when all its sources have failed.  A load that settles after the user   *)
(* has moved on to another year must therefore not change them.            *)
(***************************************************************************)
C4_ActiveOf(cache, players, meta) ==
    IF yearValue \in DOMAIN cache
    THEN players = cache[yearValue].players /\ meta = cache[yearValue].meta
    ELSE players = EmptyDataset /\ meta = NullMeta

C4_StaleLoadKeepsCurrentYear ==
    NoneSuspended =>
        /\ C4_ActiveOf(snapshotsByYear, activePlayers, activeMetaByMode["hitters"])
        /\ C4_ActiveOf(pitcherSnapshotsByYear, activePitchers,
                       activeMetaByMode["pitchers"])

(***************************************************************************)
(* C5: no two requests for the same cache key are in flight at the same    *)
(* time: a second call for the snapshot of a (mode, year), for a range key *)
(* or for a statcast leaderboard key whose request is still in flight      *)
(* issues no request of its own.                                           *)
(***************************************************************************)
C5_KeyInFlight(task) ==
    IF task.kind = "year" THEN <<"snapshot", task.stage, task.year>>
    ELSE IF task.kind \in {"view", "compare"} THEN <<"range", task.key>>
    ELSE <<"statcast", task.key>>

C5_InFlightRequestsAreDeduplicated ==
    \A t, u \in TaskIds :
        (/\ t # u
         /\ tasks[t].kind \in {"year", "view", "compare", "leaderboard"}
         /\ tasks[u].kind \in {"year", "view", "compare", "leaderboard"})
        => C5_KeyInFlight(tasks[t]) # C5_KeyInFlight(tasks[u])

(***************************************************************************)
(* C6: no step takes an entry out of the snapshot, range or statcast       *)
(* caches; a call made when its key is cached issues no request; and a     *)
(* year change to a cached year makes the cached snapshots the active      *)
(* ones.                                                                   *)
(***************************************************************************)
C6_Cached(task) ==
    IF task.kind = "year"
    THEN task.year \in DOMAIN (IF task.stage = "hitters" THEN snapshotsByYear
                               ELSE pitcherSnapshotsByYear)
    ELSE IF task.kind \in {"view", "compare"} THEN task.key \in DOMAIN rangeCache
    ELSE IF task.kind = "leaderboard" THEN task.key \in DOMAIN leaderboardStatcastCache
    ELSE FALSE

\* the request in slot t after the step belongs to a call made in the step
C6_NewCall(t) ==
    /\ tasks'[t].kind # "idle"
    /\ <<tasks'[t].kind, tasks'[t].stage, tasks'[t].year, tasks'[t].key>>
           # <<tasks[t].kind, tasks[t].stage, tasks[t].year, tasks[t].key>>

C6_Kept(cache, after) ==
    \A key \in DOMAIN cache : key \in DOMAIN after /\ after[key] = cache[key]

C6_Step ==
    /\ C6_Kept(snapshotsByYear, snapshotsByYear')
    /\ C6_Kept(pitcherSnapshotsByYear, pitcherSnapshotsByYear')
    /\ C6_Kept(rangeCache, rangeCache')
    /\ C6_Kept(leaderboardStatcastCache, leaderboardStatcastCache')
    /\ \A t \in TaskIds : C6_NewCall(t) => ~C6_Cached(tasks'[t])
    /\ (yearValue' # yearValue /\ yearValue' \in DOMAIN snapshotsByYear) =>
           /\ activePlayers' = snapshotsByYear[yearValue'].players
           /\ activeMetaByMode'["hitters"] = snapshotsByYear[yearValue'].meta
           /\ yearValue' \in DOMAIN pitcherSnapshotsByYear =>
                  /\ activePitchers' = pitcherSnapshotsByYear[yearValue'].players
                  /\ \A t \in TaskIds : tasks'[t].kind # "year"

C6_CachedCallsIssueNoRequest == [][C6_Step]_vars

\* every cache holds an entry, the selected year is a cached one that is
\* not the year of the start, and nothing is in flight: the user has come
\* back to a year loaded before, with range and statcast answers cached
C6_Witness ==
    /\ NoneSuspended
    /\ yearValue # BUNDLED_YEAR
    /\ yearValue \in DOMAIN snapshotsByYear
    /\ BUNDLED_YEAR \in DOMAIN pitcherSnapshotsByYear
    /\ activePlayers = snapshotsByYear[yearValue].players
    /\ \E key \in DOMAIN rangeCache : key[2] = yearValue
    /\ \E key \in DOMAIN rangeCache : key[2] = BUNDLED_YEAR
    /\ \E key \in DOMAIN leaderboardStatcastCache : key[2] = BUNDLED_YEAR
    /\ leaderboardOutput.kind = "table"

(***************************************************************************)
(* C7: a value stored under a key of the snapshot caches or of the range   *)
(* cache is never replaced by another one, also when several requests for  *)
(* the key overlap.                                                        *)
(***************************************************************************)
C7_Immutable(cache, after) ==
    \A key \in DOMAIN cache : key \in DOMAIN after => after[key] = cache[key]

C7_CacheEntriesAreWrittenOnce ==
    [][/\ C7_Immutable(snapshotsByYear, snapshotsByYear')
       /\ C7_Immutable(pitcherSnapshotsByYear, pitcherSnapshotsByYear')
       /\ C7_Immutable(rangeCache, rangeCache')]_vars

(***************************************************************************)
(* C8: the range cache has one entry for a mode, year, start, end,         *)
(* statcast flag and set of player ids: two keys that differ only in the   *)
(* order of the ids are the same key.                                      *)
(***************************************************************************)
C8_RangeKeyHasSortedIds ==
    \A key, other \in DOMAIN rangeCache :
        (/\ \A i \in 1..5 : key[i] = other[i]
         /\ SeqRange(key[6]) = SeqRange(other[6]))
        => key = other

(***************************************************************************)
(* C9: a load that misses the cache asks its sources in the order bundled  *)
(* copy, remote mirror, query interface for 2025 when a bundled copy       *)
(* exists, and remote mirror, bundled copy (if one exists), query          *)
(* interface otherwise; each at most once; it asks the next one only when  *)
(* the one before has failed, and the payload of the first one that        *)
(* answers is cached for the year and made the active dataset.             *)
(***************************************************************************)
C9_Order(year) ==
    IF ~localSnapshots THEN <<"cdn snapshot", "local api">>
    ELSE IF year = 2025 THEN <<"bundled snapshot", "cdn snapshot", "local api">>
    ELSE <<"cdn snapshot", "bundled snapshot", "local api">>

C9_AskedInOrder(task) ==
    /\ task.tried # <<>>
    /\ Len(task.tried) <= Len(C9_Order(task.year))
    /\ task.tried = SubSeq(C9_Order(task.year), 1, Len(task.tried))

\* the load in slot t goes on after the step
C9_Continues(t) ==
    /\ tasks'[t].kind = "year"
    /\ tasks'[t].stage = tasks[t].stage
    /\ tasks'[t].year = tasks[t].year

C9_Settles(t) ==
    LET task == tasks[t]
        source == task.tried[Len(task.tried)]
        cache == IF task.stage = "hitters" THEN snapshotsByYear'
                 ELSE pitcherSnapshotsByYear'
        active == IF task.stage = "hitters" THEN activePlayers' ELSE activePitchers'
    IN  IF sourceStatus[task.year][source] # "fail"
        THEN /\ ~C9_Continues(t)
             /\ task.year \in DOMAIN cache
             /\ cache[task.year].players.via = source
             /\ cache[task.year].players.year = task.year
             /\ cache[task.year].players.file =
                    (IF task.stage = "hitters" THEN "players" ELSE "pitchers")
             /\ active = cache[task.year].players
             /\ activeMetaByMode'[task.stage] = cache[task.year].meta
        ELSE Len(task.tried) < Len(C9_Order(task.year)) =>
                 /\ C9_Continues(t)
                 /\ Len(tasks'[t].tried) = Len(task.tried) + 1

C9_SourcesInOrderUntilFirstSuccess ==
    [][\A t \in TaskIds :
          /\ tasks'[t].kind = "year" => C9_AskedInOrder(tasks'[t])
          /\ (tasks[t].kind = "year" /\ tasks'[t] # tasks[t]) => C9_Settles(t)]_vars

\* with a bundled copy: the hitters of a year before 2025 came from the
\* bundled copy, the second source of that year, and the pitchers of 2025
\* from the remote mirror, the second source of 2025
C9_Witness ==
    /\ localSnapshots
    /\ \E year \in DOMAIN snapshotsByYear :
           year # 2025 /\ snapshotsByYear[year].players.via = "bundled snapshot"
    /\ 2025 \in DOMAIN pitcherSnapshotsByYear
    /\ pitcherSnapshotsByYear[2025].players.via = "cdn snapshot"

(***************************************************************************)
(* C10: when the last source of a load has failed like the ones before it, *)
(* the load ends, the handler goes on, and the active dataset of the       *)
(* load's mode is the empty list with a null meta.                         *)
(***************************************************************************)
C10_AllFailed(task) ==
    /\ task.kind = "year"
    /\ task.tried[Len(task.tried)] = "local api"
    /\ sourceStatus[task.year]["local api"] = "fail"

C10_FailedLoadLeavesEmptyDataset ==
    [][\A t \in TaskIds :
          (C10_AllFailed(tasks[t]) /\ tasks'[t] # tasks[t]) =>
              /\ ~(tasks'[t].kind = "year" /\ tasks'[t].stage = tasks[t].stage)
              /\ IF tasks[t].stage = "hitters"
                 THEN activePlayers' = EmptyDataset
                 ELSE activePitchers' = EmptyDataset
              /\ activeMetaByMode'[tasks[t].stage] = NullMeta]_vars

\* the hitters of one year are cached, and the load of the selected year
\* has failed and left no hitters where those of the other year were
C10_Witness ==
    /\ NoneSuspended
    /\ snapshotsByYear # EmptyMap
    /\ yearValue \notin DOMAIN snapshotsByYear
    /\ activePlayers = EmptyDataset
    /\ activeMetaByMode["hitters"] = NullMeta
    /\ \A source \in Sources : sourceStatus[yearValue][source] = "fail"

(***************************************************************************)
(* C11: when the one request of a view or compare click is answered with   *)
(* a response that is not ok, the handler ends there: no further request   *)
(* is waited for, the range cache is what it was, and the output element   *)
(* of the handler shows the error, not a table.                            *)
(***************************************************************************)
C11_FailedStep(t) ==
    RangeFetchDone(t, FALSE) =>
        /\ rangeCache' = rangeCache
        /\ tasks[t].key \notin DOMAIN rangeCache'
        /\ \A u \in TaskIds : tasks'[u].kind = "idle"
        /\ IF tasks[t].kind = "view" THEN outputPlayer' = "error"
           ELSE outputCompare' = "error"

C11_FailedRangeLoadIsReported == [][\A t \in TaskIds : C11_FailedStep(t)]_vars

\* a compare request has failed: the error is shown and nothing is cached
\* or waited for
C11_Witness ==
    /\ outputCompare = "error"
    /\ NoneSuspended
    /\ rangeCache = EmptyMap

(***************************************************************************)
(* C12: the operations on the selection that fall into one window of 50 ms *)
(* cause one write to the storage between them, not one each.              *)
(***************************************************************************)
C12_OneWritePerWindow == writesInWindow <= 1

(***************************************************************************)
(* C13: what serializeState makes of a state, restored by                  *)
(* loadPersistedState into the state of a script that has just started,    *)
(* has the year, the mode, the range inputs, the saved players, the active *)
(* player, the compared players and the ticked stats of each mode and the  *)
(* leaderboard state of each mode of the state it was made of.             *)
(***************************************************************************)
C13_Restored == loadPersistedState(FreshMem, "ok", serializeState)

C14_Step(t) ==
    (StorageGetDone(t, "ok") /\ storage.version # STORAGE_VERSION) =>
        /\ Mem' = Mem
        /\ Mem' = FreshMem

C14_UnknownVersionIsIgnored == [][\A t \in TaskIds : C14_Step(t)]_vars

\* init has read a payload with content and version 2, and has its defaults
C14_Witness ==
    /\ lastStorage = [op |-> "get", outcome |-> "ok"]
    /\ storage = ForeignPayload(STORAGE_VERSION + 1)
    /\ Mem = FreshMem

(***************************************************************************)
(* What the operations on the selection do to the state in memory.         *)
(***************************************************************************)
SelectionEffect ==
    /\ \A p \in PersistPlayers :
           AddPlayerClick(p) =>
               /\ stateByMode' = [stateByMode EXCEPT
                                     ![activeMode] = addPlayerToMode(@, p)]
               /\ savedPlayersEl' = stateByMode'[activeMode].savedPlayers
    /\ \A p \in PersistPlayers :
           SetActiveClick(p) =>
               stateByMode' = [stateByMode EXCEPT ![activeMode].activePlayerId = p]
    /\ \A p \in PersistPlayers :
           ToggleCompareClick(p) =>
               stateByMode' = [stateByMode EXCEPT ![activeMode] = toggleCompare(@, p)]
    /\ \A p \in PersistPlayers :
           RemoveClick(p) =>
               stateByMode' = [stateByMode EXCEPT ![activeMode] = removePlayer(@, p)]
    /\ ClearSavedPlayersClick =>
           stateByMode' = [stateByMode EXCEPT ![activeMode] = clearSavedPlayers(@)]
    /\ \A date \in PersistDates :
           RangeStartChange(date) => rangeStart' = date /\ UNCHANGED stateByMode

(***************************************************************************)
(* C15: without chrome.storage.local nothing reads or writes a storage,    *)
(* no timer is set and nothing is raised, and every operation on the       *)
(* selection leaves the state in memory it leaves with a storage.          *)
(***************************************************************************)
C15_Untouched ==
    ~hasStorage =>
        /\ lastStorage = NoAccess
        /\ storage = NoPayload
        /\ ~persistTimer
        /\ writesInWindow = 0

C15_WithoutStorageInMemoryOnly ==
    /\ []C15_Untouched
    /\ [][~hasStorage => SelectionEffect]_vars

\* a session without storage in which players were saved and compared, a
\* stat ticked and a date entered
C15_Witness ==
    /\ ~hasStorage
    /\ Len(getState.savedPlayers) = NumPersistPlayers
    /\ getState.activeCompareIds # <<>>
    /\ getState.selectedStatKeys # <<>>
    /\ rangeStart # NoDate

(***************************************************************************)
(* C16: a call of the storage that fails, a write or the read of init,     *)
(* raises nothing and shows no error; the handler it belongs to leaves the *)
(* state in memory it leaves after a call that succeeds, and init goes on  *)
(* to its loads with the state it had.                                     *)
(***************************************************************************)
C16_Quiet ==
    /\ lastStorage.outcome # "raised"
    /\ outputPlayer # "error"
    /\ outputCompare # "error"

C16_FailedRead(t) ==
    (\E answer \in {"error", "throws"} : StorageGetDone(t, answer)) =>
        /\ Mem' = Mem
        /\ tasks'[t] = Suspended("init", "hitters", yearValue)

C16_StorageFailuresStayInside ==
    /\ []C16_Quiet
    /\ [][lastStorage'.outcome \in {"error", "caught"} => SelectionEffect]_vars
    /\ [][\A t \in TaskIds : C16_FailedRead(t)]_vars

\* the write of the last operation was lost: the storage holds an older
\* state than the memory, whose pills show the saved players
C16_Witness ==
    /\ lastStorage = [op |-> "set", outcome |-> "caught"]
    /\ storage # serializeState
    /\ getState.savedPlayers # <<>>
    /\ savedPlayersEl = getState.savedPlayers

(***************************************************************************)
(* C17: a click on the compare pill of a player who is not compared, while *)
(* 5 players are, changes nothing: the same 5 ids in the same order.  A    *)
(* click on the pill of a compared player takes that player out and leaves *)
(* the others, however many are compared.                                  *)
(***************************************************************************)
C17_Step(p) ==
    ToggleCompareClick(p) =>
        LET ids == stateByMode[activeMode].activeCompareIds
            after == stateByMode'[activeMode].activeCompareIds
        IN  /\ (~SeqHas(ids, p) /\ Len(ids) = MAX_COMPARE_PLAYERS) =>
                   /\ after = ids
                   /\ Len(after) = MAX_COMPARE_PLAYERS
            /\ SeqHas(ids, p) =>
                   /\ SeqRange(after) = SeqRange(ids) \ {p}
                   /\ Len(after) = Len(ids) - 1

C17_ToggleCompareAtCapacity == [][\A p \in CapPlayers : C17_Step(p)]_vars

\* 5 players are compared and the pill of a sixth can be clicked
C17_Witness ==
    /\ Len(getState.activeCompareIds) = MAX_COMPARE_PLAYERS
    /\ \E p \in CapCompareChoices :
           SeqHas(savedPlayersEl, p) /\ ~SeqHas(getState.activeCompareIds, p)

(***************************************************************************)
(* C18: adding a player whose id is saved in the mode already, or adding   *)
(* to a mode with 10 saved players, changes nothing of that mode: the      *)
(* saved players and their order, the active player, the compared players  *)
(* and the ticked stats.                                                   *)
(***************************************************************************)
C18_Refused(mode, p) ==
    \/ SeqHas(stateByMode[mode].savedPlayers, p)
    \/ Len(stateByMode[mode].savedPlayers) >= MAX_SAVED_PLAYERS

C18_Step(mode, p) ==
    (/\ C18_Refused(mode, p)
     /\ \/ mode = activeMode /\ AddPlayerClick(p)
        \/ RosterAddClick(mode, p)) =>
        serializeModeState(stateByMode'[mode]) = serializeModeState(stateByMode[mode])

C18_RefusedAddChangesNothing ==
    [][\A mode \in Modes, p \in CapPlayers : C18_Step(mode, p)]_vars

\* the mode is full, with compared players and ticked stats, and one more
\* player is offered
C18_Witness ==
    /\ Len(getState.savedPlayers) = MAX_SAVED_PLAYERS
    /\ getState.activeCompareIds # <<>>
    /\ getState.selectedStatKeys # <<>>
    /\ \E p \in CapAddChoices(activeMode) : ~SeqHas(getState.savedPlayers, p)

(***************************************************************************)
(* The leaderboard: which rows the board is made of, and their order.      *)
(***************************************************************************)
AsSet(seq) == { seq[i] : i \in 1..Len(seq) }

\* the rows of the active dataset that are eligible before qualification,
\* for the role chosen, and those of them that qualify
BoardRoleRows ==
    rolePlayers(activeMode, getActivePitcherRole(leaderboardStateByMode),
                Rows(getActiveDataset(Data, activeMode)))
BoardQualifiedRows ==
    qualifiedPlayers(activeMode, getActivePitcherRole(leaderboardStateByMode),
                     Rows(getActiveDataset(Data, activeMode)))
\* the rows the board is drawn from
BoardValidRows ==
    validPlayers(activeMode, getActivePitcherRole(leaderboardStateByMode),
                 Rows(getActiveDataset(Data, activeMode)))

\* C19: the board of a rendered leaderboard consists of qualified rows only
\* when at least 25 role-filtered rows qualify; when fewer than 25 qualify it
\* is drawn from the whole role-filtered set of eligible rows.  Either way it
\* has exactly min(25, number of role-filtered eligible rows) entries, and a
\* message stands in its place only when that number is 0.
C19_FallbackKeepsBoardFull ==
    LET board == leaderboardOutput.board
        full == IF Len(BoardRoleRows) < TOP_COUNT
                THEN Len(BoardRoleRows) ELSE TOP_COUNT
    IN  /\ leaderboardOutput.kind = "table" =>
               /\ leaderboardOutput.data = getActiveDataset(Data, activeMode)
               /\ Len(board) = full
               /\ Cardinality(AsSet(board)) = full
               /\ AsSet(board) \subseteq AsSet(BoardRoleRows)
               /\ Len(BoardQualifiedRows) >= TOP_COUNT =>
                      AsSet(board) \subseteq AsSet(BoardQualifiedRows)
               /\ Len(BoardQualifiedRows) < TOP_COUNT
                  /\ Len(BoardRoleRows) <= TOP_COUNT =>
                      AsSet(board) = AsSet(BoardRoleRows)
        /\ leaderboardOutput.kind = "message" => full = 0

\* a board of 25 rows drawn from more than 25 eligible rows of which some,
\* but fewer than 25, qualify: it lists rows that do not qualify
C19_Witness ==
    /\ leaderboardOutput.kind = "table"
    /\ Len(BoardQualifiedRows) > 0
    /\ Len(BoardQualifiedRows) < TOP_COUNT
    /\ Len(BoardRoleRows) > TOP_COUNT
    /\ Len(leaderboardOutput.board) = TOP_COUNT
    /\ \E row \in AsSet(leaderboardOutput.board) :
           row \notin AsSet(BoardQualifiedRows)

\* `a` has a strictly better value than `b` under the direction of the stat
C20_Beats(a, b, lowerIsBetter) ==
    IF lowerIsBetter THEN a.value < b.value ELSE a.value > b.value

\* C20: the board is in descending order of value, ascending when the stat
\* has lower_is_better: no row of the board beats a row listed above it, so
\* rank 1 holds the best value of the rows the board is drawn from; no row
\* left out beats a listed one; listed rows of equal value stand in the
\* order of the dataset.
C20_BoardIsSortedStably ==
    leaderboardOutput.kind = "table" =>
        LET board == leaderboardOutput.board
            lowerIsBetter == LowerIsBetter(leaderboardOutput.stat)
        IN  /\ AsSet(board) \subseteq AsSet(BoardValidRows)
            /\ \A i, j \in 1..Len(board) :
                   i < j =>
                       /\ ~C20_Beats(board[j], board[i], lowerIsBetter)
                       /\ board[i].value = board[j].value =>
                              board[i].id < board[j].id
            /\ \A row \in AsSet(BoardValidRows) :
                   ~C20_Beats(row, board[1], lowerIsBetter)
            /\ \A row \in AsSet(BoardValidRows) \ AsSet(board) :
                   \A i \in 1..Len(board) :
                       ~C20_Beats(row, board[i], lowerIsBetter)

\* a board of a stat with lower_is_better that leaves a row out, lists rows
\* of equal value, and has at rank 1 a row that stands behind another
\* listed row in the dataset
C20_Witness ==
    /\ leaderboardOutput.kind = "table"
    /\ LowerIsBetter(leaderboardOutput.stat)
    /\ Len(BoardValidRows) > Len(leaderboardOutput.board)
    /\ LET board == leaderboardOutput.board
       IN  /\ \E i \in 2..Len(board) : board[i].id < board[1].id
           /\ \E i, j \in 1..Len(board) :
                  i < j /\ board[i].value = board[j].value

(***************************************************************************)
(* The role of a pitcher and the boards of the two roles.                  *)
(***************************************************************************)
\* the rows of the active dataset that pass the tests on value, team and
\* flag
BoardBaseRows == basePlayers(Rows(getActiveDataset(Data, activeMode)))

\* the role as classified from known g and gs, else from known g and ip:
\* gs/g >= 0.5, ip/g >= 3.  For g = 0 the quotient is infinite when the
\* dividend is positive and is no number when it is 0.
C21_QuotientAtLeast(dividend, divisor, num, den) ==
    IF divisor = 0 THEN dividend > 0 ELSE den * dividend >= num * divisor

C21_ClaimedRole(row) ==
    IF IsNumber(row.g) /\ IsNumber(row.gs)
    THEN IF C21_QuotientAtLeast(row.gs, row.g, 1, 2)
         THEN PITCHER_ROLE_STARTERS ELSE PITCHER_ROLE_RELIEVERS
    ELSE IF IsNumber(row.g) /\ IsNumber(row.ip)
    THEN IF C21_QuotientAtLeast(row.ip, row.g, 3, 1)
         THEN PITCHER_ROLE_STARTERS ELSE PITCHER_ROLE_RELIEVERS
    ELSE NoRole

\* the same, with g = 0 counted as g not known
C21_AmendedRole(row) ==
    IF row.g = 0 THEN NoRole ELSE C21_ClaimedRole(row)

\* the board of pitcher mode holds rows of the requested role only, all of
\* them while it has fewer than 25 rows, and a message stands for it only
\* when no eligible row has that role
C21_BoardOfRole(roleOf(_)) ==
    LET role == getActivePitcherRole(leaderboardStateByMode)
        board == leaderboardOutput.board
        ofRole == { row \in AsSet(BoardBaseRows) : roleOf(row) = role }
    IN  activeMode = "pitchers" =>
            /\ leaderboardOutput.kind = "table" =>
                   /\ AsSet(board) \subseteq ofRole
                   /\ Len(board) < TOP_COUNT => AsSet(board) = ofRole
            /\ leaderboardOutput.kind = "message" => ofRole = {}

\* C21 as stated: a pitcher whose g and gs are both known is a starter iff
\* gs/g >= 0.5 and a reliever otherwise; else, with g and ip known, a starter
\* iff ip/g >= 3 and a reliever otherwise; else the role is undetermined.  The
\* board of pitcher mode holds exactly the rows whose role is the requested
\* one.
C21_RoleFromKnownFields == C21_BoardOfRole(C21_ClaimedRole)

\* C21 amended: the classification applies when g is known and not 0; a row
\* with g = 0 has an undetermined role, like a row whose g is not known, and
\* is on neither board.
C21_RoleFromNonZeroGames == C21_BoardOfRole(C21_AmendedRole)

\* a board of pitcher mode that leaves out an eligible row of undetermined
\* role and lists a row classified by innings or by games started
C21_Witness ==
    /\ activeMode = "pitchers"
    /\ leaderboardOutput.kind = "table"
    /\ \E row \in AsSet(BoardBaseRows) :
           /\ C21_AmendedRole(row) = NoRole
           /\ row \notin AsSet(leaderboardOutput.board)
    /\ \E row \in AsSet(leaderboardOutput.board) :
           C21_AmendedRole(row) = getActivePitcherRole(leaderboardStateByMode)

(***************************************************************************)
(* Qualification.                                                          *)
(***************************************************************************)
\* the test `field >= least` on a row of a dataset: passed by every row when
\* no row of the dataset has a number in the field, failed by a row without
\* a number in it when some row has one
C22_Passes(rows, row, field, least) ==
    IF \A i \in 1..Len(rows) : rows[i][field] = Null
    THEN TRUE
    ELSE row[field] # Null /\ row[field] >= least

C22_Qualifies(mode, rows, row) ==
    IF mode = "hitters"
    THEN C22_Passes(rows, row, "pa", 150) /\ C22_Passes(rows, row, "g", 20)
    ELSE C22_Passes(rows, row, "ip", 50) /\ C22_Passes(rows, row, "g", 10)

C22_QualifiedRows ==
    { row \in AsSet(BoardRoleRows) :
        C22_Qualifies(activeMode, Rows(getActiveDataset(Data, activeMode)), row) }

\* C22: a hitter qualifies iff pa >= 150 and g >= 20, a pitcher iff ip >= 50
\* and g >= 10, a test being skipped exactly when no row of the dataset has
\* a number in its field.  The board shows it: with 25 or more such rows it
\* lists 25 of them and no other row, so a row that does not qualify is
\* listed only when fewer than 25 rows do.
C22_QualificationThresholds ==
    leaderboardOutput.kind = "table"
    /\ Cardinality(C22_QualifiedRows) >= TOP_COUNT =>
            /\ AsSet(leaderboardOutput.board) \subseteq C22_QualifiedRows
            /\ Len(leaderboardOutput.board) = TOP_COUNT

\* a board of 25 hitters from a dataset without games: the test on games is
\* skipped, and a row with too few plate appearances and a better value
\* than rank 1 is left out
C22_Witness ==
    /\ activeMode = "hitters"
    /\ leaderboardOutput.kind = "table"
    /\ Len(leaderboardOutput.board) = TOP_COUNT
    /\ ~hasGames(Rows(getActiveDataset(Data, activeMode)))
    /\ \E row \in AsSet(BoardRoleRows) \ AsSet(leaderboardOutput.board) :
           /\ row.pa < 150
           /\ row.value > leaderboardOutput.board[1].value

(***************************************************************************)
(* The rows of a board and their ranks.                                    *)
(***************************************************************************)
\* C23: every row of a board has a value for the ranked stat, a team that
\* is not empty and no flag that disqualifies it; a board has at most 25
\* rows and their ranks are 1, 2, ..., n in the order of the board.
C23_BoardRowsAreEligibleAndRanked ==
    leaderboardOutput.kind = "table" =>
        LET board == leaderboardOutput.board
            ranks == leaderboardOutput.ranks
        IN  /\ Len(board) <= 25
            /\ Len(ranks) = Len(board)
            /\ \A i \in 1..Len(board) :
                   /\ ranks[i] = i
                   /\ board[i].value # Null
                   /\ board[i].team # ""
                   /\ board[i].qual # FALSE

\* a board of 25 rows made from a dataset that also has a row without a
\* value, without a team or with the flag
C23_Witness ==
    /\ leaderboardOutput.kind = "table"
    /\ Len(leaderboardOutput.board) = 25
    /\ leaderboardOutput.ranks[25] = 25
    /\ \E row \in AsSet(Rows(leaderboardOutput.data)) :
           row.value = Null \/ row.team = "" \/ row.qual = FALSE

(***************************************************************************)
(* A stat the registry of the active mode does not have.                   *)
(***************************************************************************)
\* the leaderboard has a stat that the registry of the active mode lacks
C24_UnknownStat ==
    /\ activeLeaderboardStat # NoStat
    /\ activeLeaderboardStat \notin stateByMode[activeMode].statsByKey

\* a step that renders the leaderboard for such a stat: it leaves an output
\* that is neither the one before nor the saved output of the mode, which
\* restoreLeaderboardForMode puts back without a render
C24_Step ==
    /\ C24_UnknownStat'
    /\ leaderboardOutput' # leaderboardOutput
    /\ leaderboardOutput' # leaderboardStateByMode[activeMode'].output

\* C24: a render for a stat key that is not in the registry of the active
\* mode ranks nothing: it reads no statcast rows and starts no request for
\* them, it makes no board, and it ends in the message of the configuration
\* error.
C24_UnknownStatIsAConfigurationError ==
    [][C24_Step =>
          /\ leaderboardOutput' = MessageOutput(ConfigNotFound)
          /\ leaderboardStatcastCache' = leaderboardStatcastCache
          /\ \A t \in TaskIds : tasks'[t].kind # "leaderboard"]_vars

\* the message of the configuration error stands for a stat the registry
\* does not have
C24_Witness ==
    /\ C24_UnknownStat
    /\ leaderboardOutput = MessageOutput(ConfigNotFound)

(***************************************************************************)
(* A leaderboard without rows.                                             *)
(***************************************************************************)
\* C25: a leaderboard never shows a table without rows.  For an empty
\* dataset it shows the message that there is no data, for a dataset with
\* rows of which none is eligible the message that no player qualifies; the
\* two messages differ, and neither is a table.
C25_EmptyResultsAreExplicit ==
    LET rows == Rows(getActiveDataset(Data, activeMode))
    IN  /\ leaderboardOutput.kind = "table" => leaderboardOutput.board # <<>>
        /\ MessageOutput(NoDataAvailable) # MessageOutput(NoQualifiedPlayers)
        /\ activeLeaderboardStat # NoStat =>
               /\ rows = <<>> =>
                      leaderboardOutput = MessageOutput(NoDataAvailable)
               /\ rows # <<>> /\ BoardRoleRows = <<>> =>
                      leaderboardOutput = MessageOutput(NoQualifiedPlayers)
               /\ BoardRoleRows # <<>> => leaderboardOutput.kind = "table"

\* the message that no player qualifies, for a dataset that has rows
C25_Witness ==
    /\ activeLeaderboardStat # NoStat
    /\ Rows(getActiveDataset(Data, activeMode)) # <<>>
    /\ leaderboardOutput = MessageOutput(NoQualifiedPlayers)

(***************************************************************************)
(* Merging the rows of a range with the rows of the season.                *)
(***************************************************************************)
\* the rows of `rows` for the player `id`; the ids of a dataset are unique
C26_RowsOf(rows, id) == { rows[i] : i \in { j \in 1..Len(rows) : rows[j]["player_id"] = id } }

\* the requested ids that have a season row or a range row, in the order of
\* the request
C26_Kept ==
    SelectSeq(callArgs.playerIds,
              LAMBDA id : C26_RowsOf(callArgs.seasonRows, id) # {}
                          \/ C26_RowsOf(callArgs.rangeRows, id) # {})

\* the result has one row for each kept id, in that order, and `Right`
\* holds of each with the season rows and the range rows of its id
C26_EachRow(Right(_, _, _)) ==
    /\ Len(callResult.value) = Len(C26_Kept)
    /\ \A i \in 1..Len(C26_Kept) :
           Right(callResult.value[i],
                 C26_RowsOf(callArgs.seasonRows, C26_Kept[i]),
                 C26_RowsOf(callArgs.rangeRows, C26_Kept[i]))

C26_Requested == { callArgs.statKeys[i] : i \in 1..Len(callArgs.statKeys) }

C26_RightForKeys(row, season, range) ==
    /\ range = {} => row \in season
    /\ season = {} => row \in range
    /\ \A s \in season, r \in range :
           /\ DOMAIN row = DOMAIN s \cup (C26_Requested \cap DOMAIN r)
           /\ \A key \in DOMAIN row :
                  row[key] = IF key \in C26_Requested /\ key \in DOMAIN r
                             THEN r[key] ELSE s[key]

\* C26: mergeRangeRowsForKeys gives, for each requested id with a season row
\* and a range row, the season row with the requested keys that the range
\* row has taken from the range row, and no other field of the range row;
\* for an id with one of the rows that row; nothing for an id with neither;
\* in the order of the requested ids.
C26_MergeForKeys ==
    callResult.fn = "mergeRangeRowsForKeys" => C26_EachRow(C26_RightForKeys)

\* a merged row that keeps a field only the season row has, takes a
\* requested field from the range row and leaves out a field of the range
\* row that was not requested
C26_Witness ==
    /\ callResult.fn = "mergeRangeRowsForKeys"
    /\ callArgs.playerIds = <<MaxMergeIds, 1>>
    /\ \E s \in C26_RowsOf(callArgs.seasonRows, 1),
          r \in C26_RowsOf(callArgs.rangeRows, 1) :
           /\ "hr" \in DOMAIN s /\ "hr" \in DOMAIN r
           /\ "barrelpct" \in DOMAIN r \ DOMAIN s
           /\ callArgs.statKeys = <<"barrelpct">>
           /\ callResult.value[Len(callResult.value)] =
                  [s EXCEPT !["hr"] = s["hr"]] @@ [key \in {"barrelpct"} |-> r[key]]

C27_RightWhole(row, season, range) ==
    /\ range = {} => row \in season
    /\ season = {} => row \in range
    /\ \A s \in season, r \in range :
           /\ DOMAIN row = DOMAIN s \cup DOMAIN r
           /\ \A key \in DOMAIN r : row[key] = r[key]
           /\ \A key \in DOMAIN s \ DOMAIN r : row[key] = s[key]

\* C27: mergeRangeRows gives, for each requested id, the union of its season
\* row and its range row, with the value of the range row in every field
\* both have; the fields of the one row an id has; nothing for an id with
\* neither; in the order of the requested ids.
C27_MergeWhole ==
    callResult.fn = "mergeRangeRows" => C26_EachRow(C27_RightWhole)

\* a merged row with a field of both rows, which has the value of the range
\* row, and a field of the season row alone
C27_Witness ==
    /\ callResult.fn = "mergeRangeRows"
    /\ Len(callResult.value) = 2
    /\ \E i \in 1..2 :
           \E s \in C26_RowsOf(callArgs.seasonRows, callResult.value[i]["player_id"]),
              r \in C26_RowsOf(callArgs.rangeRows, callResult.value[i]["player_id"]) :
               /\ "hr" \in DOMAIN s /\ "hr" \in DOMAIN r
               /\ callResult.value[i]["hr"] = r["hr"]
               /\ r["hr"] # s["hr"]
               /\ "barrelpct" \in DOMAIN s \ DOMAIN r

(***************************************************************************)
(* The range request of a view or a compare.                               *)
(***************************************************************************)
\* some selected stat is one of the statcast keys of the active mode
C28_StatcastSelected ==
    \E i \in 1..Len(getState.selectedStatKeys) :
        IsStatcastKey(activeMode, getState.selectedStatKeys[i])

\* the step issues the range request of the handler `t`
C28_Issued(t) ==
    /\ tasks[t].kind = "idle"
    /\ tasks'[t].kind \in {"view", "compare"}

\* the window of the season: March 1 to November 30 of the year selected
C28_SeasonWindow(key) ==
    /\ key[3] = <<yearValue, 301>>
    /\ key[4] = <<yearValue, 1130>>

\* no rows are cached for the season window of the players
C28_NotCached(playerIds) ==
    \A key \in DOMAIN rangeCache :
        ~(/\ key[1] = activeMode /\ key[2] = yearValue
          /\ C28_SeasonWindow(key) /\ key[6] = playerIds)

\* C28: a view or a compare issues a range request for the window of the
\* whole season, March 1 to November 30 of the year, exactly when range mode
\* is off and a selected stat is a statcast key of the active mode (and the
\* rows are not cached yet); in range mode a request has the window the
\* user entered; with range mode off and no statcast key selected no range
\* request is issued.
C28_SeasonRangeOnlyForStatcastKeys ==
    [][/\ \A t \in TaskIds :
              C28_Issued(t) =>
                  IF rangeEnabled
                  THEN /\ tasks'[t].key[3] = rangeStart
                       /\ tasks'[t].key[4] = rangeEnd
                  ELSE /\ C28_StatcastSelected
                       /\ C28_SeasonWindow(tasks'[t].key)
       /\ /\ ViewClick
          /\ ~rangeEnabled /\ C28_StatcastSelected
          /\ getState.activePlayerId # NoPlayer
          /\ C28_NotCached(<<getState.activePlayerId>>)
          => \E t \in TaskIds : C28_Issued(t) /\ tasks'[t].kind = "view"
       /\ /\ CompareClick
          /\ ~rangeEnabled /\ C28_StatcastSelected
          /\ Len(getState.activeCompareIds) >= 2
          /\ C28_NotCached(getState.activeCompareIds)
          => \E t \in TaskIds : C28_Issued(t) /\ tasks'[t].kind = "compare"
      ]_vars

\* a request for the window of the season is in flight, with range mode off
C28_Witness ==
    /\ ~rangeEnabled
    /\ \E t \in TaskIds :
           /\ tasks[t].kind \in {"view", "compare"}
           /\ C28_SeasonWindow(tasks[t].key)

(***************************************************************************)
(* The score of a name against a query.                                    *)
(***************************************************************************)
\* the name and the query in lower case without the characters that are
\* neither letters nor digits
C30_Normal(value) ==
    SelectSeq(value, LAMBDA char : char \in {"a", "b", "A"})
C30_Lower(value) ==
    [i \in 1..Len(value) |-> IF value[i] = "A" THEN "a" ELSE value[i]]
C30_Name == C30_Lower(C30_Normal(callArgs.name))
C30_Query == C30_Lower(C30_Normal(callArgs.query))

\* the tokens of the name: its longest stretches without a blank,
\* normalized, those that keep a character
C30_Tokens ==
    LET name == callArgs.name
        Token(i, j) ==
            /\ \A k \in i..j : name[k] # " "
            /\ i = 1 \/ name[i - 1] = " "
            /\ j = Len(name) \/ name[j + 1] = " "
    IN  { C30_Lower(C30_Normal(SubSeq(name, i, j))) :
            <<i, j>> \in { ij \in (1..Len(name)) \X (1..Len(name)) :
                              ij[1] <= ij[2] /\ Token(ij[1], ij[2]) } }
            \ {<<>>}

C30_IsSubstring ==
    \E i, j \in 0..Len(C30_Name) :
        i <= j /\ SubSeq(C30_Name, i + 1, j) = C30_Query

\* C30: fuzzyScore(name, query) is null iff the normalized query is empty;
\* otherwise it is 0 iff the normalized name contains the normalized query,
\* and else it is the least of the edit distances from the normalized query
\* to the whole normalized name and to each token of the name, which is 1
\* at least: a name that contains the query scores below every other name.
C30_FuzzyScore ==
    callResult.fn = "fuzzyScore" =>
        LET score == callResult.value
            distances == { levenshtein(word, C30_Query) :
                             word \in {C30_Name} \cup C30_Tokens }
        IN  /\ score = Null <=> C30_Query = <<>>
            /\ C30_Query # <<>> => (score = 0 <=> C30_IsSubstring)
            /\ C30_Query # <<>> /\ ~C30_IsSubstring =>
                   /\ score \in distances
                   /\ \A d \in distances : score <= d
                   /\ score >= 1

\* a score that is the distance to a token of the name and is less than the
\* distance to the whole name
C30_Witness ==
    /\ callResult.fn = "fuzzyScore"
    /\ callResult.value >= 1
    /\ callResult.value < levenshtein(C30_Name, C30_Query)
    /\ \E char \in AsSet(callArgs.name) : char = "-"

\* the normalized query of a search and the limit of its score
C29_Query == C30_Lower(C30_Normal(callArgs.query))
C29_Threshold ==
    IF Len(C29_Query) <= 3 THEN 2
    ELSE IF Len(C29_Query) \div 2 > 2 THEN Len(C29_Query) \div 2 ELSE 2
C29_Score(entity) == fuzzyScore(entity.name, callArgs.query)

\* the normalized name of the entity contains the normalized query
C29_Contains(entity) ==
    LET name == C30_Lower(C30_Normal(entity.name))
    IN  \E i, j \in 0..Len(name) : i <= j /\ SubSeq(name, i + 1, j) = C29_Query

\* the names without regard to case, in the order of their characters
C29_Code(char) ==
    IF char = " " THEN 32 ELSE IF char = "-" THEN 45
    ELSE IF char \in {"a", "A"} THEN 97 ELSE 98
C29_NameBefore(a, b) ==
    LET shorter == IF Len(a) < Len(b) THEN Len(a) ELSE Len(b)
    IN  \/ \E i \in 1..shorter :
              /\ C29_Code(a[i]) < C29_Code(b[i])
              /\ \A j \in 1..(i - 1) : C29_Code(a[j]) = C29_Code(b[j])
        \/ /\ Len(a) < Len(b)
           /\ \A j \in 1..Len(a) : C29_Code(a[j]) = C29_Code(b[j])

\* entity `a` has to stand before entity `b` in the results
C29_Before(a, b) ==
    \/ C29_Score(a) < C29_Score(b)
    \/ C29_Score(a) = C29_Score(b) /\ C29_NameBefore(a.name, b.name)

\* the results of the search are the first entries, 50 of players and 25 of
\* stats, of the entities that `Keeps` keeps, in the order of the score
\* and, for the same score, of the name; there are none for a query
\* without a letter
C29_Right(Keeps(_)) ==
    LET entities == callArgs.entities
        matches == callResult.value.matches
        limit == IF callResult.fn = "runSearch" THEN 50 ELSE 25
        expected == { i \in 1..Len(entities) : Keeps(entities[i]) }
        listed == { i \in 1..Len(entities) :
                      \E k \in 1..Len(matches) : matches[k].id = entities[i].id }
    IN  IF C29_Query = <<>> THEN matches = <<>>
        ELSE /\ Len(matches) =
                    IF Cardinality(expected) < limit
                    THEN Cardinality(expected) ELSE limit
             /\ listed \subseteq expected
             /\ Cardinality(listed) = Len(matches)
             /\ \A k \in 1..Len(matches) : \E i \in listed :
                    matches[k] = [id |-> entities[i].id, name |-> entities[i].name]
             /\ \A k \in 1..(Len(matches) - 1) :
                    ~C29_Before(matches[k + 1], matches[k])
             /\ \A i \in expected \ listed :
                    ~C29_Before(entities[i], matches[Len(matches)])

C31_Edits(value, longest) ==
    LET n == Len(value)
        deleted == { SubSeq(value, 1, i - 1) \o SubSeq(value, i + 1, n) : i \in 1..n }
        replaced == { [value EXCEPT ![i] = char] :
                        i \in 1..n, char \in {"a", "b"} }
        inserted == IF n >= longest THEN {}
                    ELSE { SubSeq(value, 1, i) \o <<char>> \o SubSeq(value, i + 1, n) :
                             i \in 0..n, char \in {"a", "b"} }
    IN  deleted \cup replaced \cup inserted

\* the strings that at most `steps` such edits make of the strings of `from`
RECURSIVE C31_Within(_, _, _)
C31_Within(from, steps, longest) ==
    IF steps = 0 THEN from
    ELSE C31_Within(from \cup UNION { C31_Edits(value, longest) : value \in from },
                    steps - 1, longest)

\* the least number of edits that make `b` of `a`
C31_LeastEdits(a, b) ==
    LET longest == IF Len(a) > Len(b) THEN Len(a) ELSE Len(b)
    IN  CHOOSE k \in 0..longest :
            /\ b \in C31_Within({a}, k, longest)
            /\ \A fewer \in 0..(k - 1) : b \notin C31_Within({a}, fewer, longest)

\* C31: levenshtein is the edit distance with unit costs, the least number
\* of insertions, deletions and substitutions of one character that make one
\* string of the other: for all strings a, b and c, levenshtein(a, a) = 0,
\* levenshtein("", b) is the length of b, levenshtein(a, b) =
\* levenshtein(b, a), and levenshtein(a, c) <= levenshtein(a, b) +
\* levenshtein(b, c).
C31_LevenshteinIsAMetric ==
    callResult.fn = "levenshtein" =>
        LET d == callResult.value
        IN  /\ d.aa = 0
            /\ d.emptyB = Len(callArgs.b)
            /\ d.bEmpty = Len(callArgs.b)
            /\ d.ab = d.ba
            /\ d.ac <= d.ab + d.bc
            /\ d.ab = C31_LeastEdits(callArgs.a, callArgs.b)

\* three different strings, the first two of one length, for which the way
\* over the second string is not longer than the direct one
C31_Witness ==
    /\ callResult.fn = "levenshtein"
    /\ Len(callArgs.a) = Len(callArgs.b)
    /\ Len(callArgs.c) > Len(callArgs.b)
    /\ callResult.value.ab >= 1
    /\ callResult.value.bc >= 1
    /\ callResult.value.ac = callResult.value.ab + callResult.value.bc

\* the catalog fetches of a mode that the state shows: those in flight, and
\* the one that has set configLoaded
C32_CatalogFetches(mode) ==
    Cardinality({ t \in TaskIds :
                    tasks[t].kind = "applyMode" /\ tasks[t].mode = mode })
        + (IF stateByMode[mode].configLoaded THEN 1 ELSE 0)

\* C32: the stat catalog of each mode is loaded once per session: whatever
\* the mode switches, and also when the mode is switched while a catalog
\* fetch is in flight, at most one catalog fetch is issued for each mode.
C32_OneCatalogFetchPerMode ==
    \A mode \in Modes : C32_CatalogFetches(mode) <= 1

\* the role of the pitchers leaderboard is one of the two
C33_RoleIsKnown ==
    leaderboardStateByMode["pitchers"].pitcherRole \in {"starters", "relievers"}

\* the script has run its declarations and nothing has been restored yet
C33_Initial ==
    \E t \in TaskIds : tasks[t].kind = "init" /\ tasks[t].stage = "storage"

\* the board kept for the hitters has every row of its dataset that has a
\* value, a team and no flag, whatever the role of the row is (the datasets
\* have fewer than 25 rows)
C33_HittersBoardHasAllRoles ==
    LET output == leaderboardStateByMode["hitters"].output
        rows == Rows(output.data)
    IN  output.kind = "table" =>
            AsSet(output.board) =
                { rows[i] : i \in { j \in 1..Len(rows) :
                                      /\ rows[j].value # Null
                                      /\ rows[j].team \notin {"", " "}
                                      /\ rows[j].qual } }

\* C33: in every state, also after a restore from a payload whose role is
\* missing or is none of the two, the role of the pitchers leaderboard is
\* starters or relievers, and it is starters before anything is restored or
\* chosen; the leaderboards of the hitters are not filtered by any role.
C33_PitcherRoleIsAlwaysKnown ==
    /\ C33_RoleIsKnown
    /\ C33_Initial => leaderboardStateByMode["pitchers"].pitcherRole = "starters"
    /\ C33_HittersBoardHasAllRoles

\* the payload the session started from, still in the storage, has a role
\* that is none of the two; the restored role is the default, and the board
\* of the hitters has a reliever and a row without a role while the
\* relievers are chosen for the pitchers
C33_Witness ==
    /\ storage.version = STORAGE_VERSION
    /\ storage.leaderboard["pitchers"].pitcherRole = "closers"
    /\ leaderboardStateByMode["pitchers"].pitcherRole = "relievers"
    /\ leaderboardStateByMode["hitters"].output.kind = "table"
    /\ \E i, j \in 1..Len(leaderboardStateByMode["hitters"].output.board) :
           /\ leaderboardStateByMode["hitters"].output.board[i].gs = 9
           /\ leaderboardStateByMode["hitters"].output.board[j].g = Null

\* the selection state of a mode
C34_Selection(states, mode) ==
    <<states[mode].savedPlayers, states[mode].activePlayerId,
      states[mode].activeCompareIds, states[mode].selectedStatKeys>>

\* a step of applyMode: the change of the mode select, or the rest of it
\* when the catalog has arrived
C34_ModeSwitch ==
    \/ \E mode \in Modes : ModeChange(mode)
    \/ \E t \in TaskIds, ok \in BOOLEAN : ConfigFetchDone(t, ok)

\* a step of the user on the lists: add, remove, choose, compare, tick, clear
C34_Operation ==
    \/ \E player \in 1..NumCapPlayers : AddPlayerClick(player)
    \/ \E player \in 1..NumCapPlayers, mode \in Modes : RosterAddClick(mode, player)
    \/ \E player \in 1..NumCapPlayers : SetActiveClick(player)
    \/ \E player \in 1..NumCapPlayers : ToggleCompareClick(player)
    \/ \E player \in 1..NumCapPlayers : RemoveClick(player)
    \/ ClearSavedPlayersClick
    \/ \E key \in CatalogKeys : StatCheckboxChange(key)

\* C34: the selection states of the two modes are independent: adding,
\* removing, choosing and comparing a player, ticking a stat and clearing
\* change the saved players, the active player, the compared players and the
\* selected stats of one mode at most, and a switch of the mode changes
\* those of neither mode.
C34_ModesAreIndependent ==
    [][/\ C34_Operation =>
              \E mode \in Modes :
                  C34_Selection(stateByMode', mode) = C34_Selection(stateByMode, mode)
       /\ C34_ModeSwitch =>
              \A mode \in Modes :
                  C34_Selection(stateByMode', mode) = C34_Selection(stateByMode, mode)]_vars

\* the leaderboard selection kept for a mode
C35_Kept(byMode, mode) ==
    <<byMode[mode].statKey, byMode[mode].output, byMode[mode].year>>

\* C35: a render of the leaderboard that was started while a mode was
\* active writes the leaderboard selection of that mode only: when the mode
\* is switched while the render waits for its statcast request, the stat,
\* the output and the year kept for the other mode are the same after the
\* render has finished.
C35_RenderWritesItsOwnMode ==
    [][\A t \in TaskIds :
           tasks[t].kind = "leaderboard" /\ tasks'[t] # tasks[t] =>
               C35_Kept(leaderboardStateByMode', OtherMode(tasks[t].key[1]))
                   = C35_Kept(leaderboardStateByMode, OtherMode(tasks[t].key[1]))]_vars

(***************************************************************************)
(* C36: with a storage that works, whenever no handler is suspended at an  *)
(* await and no timer of schedulePersist is pending, what the storage      *)
(* holds is serializeState() of the current state: year, mode, range       *)
(* parameters, leaderboard selections and the selections of both modes.    *)
(***************************************************************************)
C36_Quiescent == hasStorage /\ NoneSuspended /\ ~persistTimer

C36_StorageConverges == C36_Quiescent => storage = serializeState

(***************************************************************************)
(* C37: when loadPersistedState has restored a payload of version 1, each  *)
(* mode holds at most 10 saved players, at most 5 compare ids and at most  *)
(* 10 stat keys, its activePlayerId is null or the id of one of its saved  *)
(* players, each of its compare ids is the id of one of its saved players, *)
(* and the active mode is hitters or pitchers.                             *)
(***************************************************************************)
C37_Restored ==
    /\ lastStorage = [op |-> "get", outcome |-> "ok"]
    /\ storage.version = STORAGE_VERSION

C37_SelectionState(state) ==
    /\ Len(state.savedPlayers) <= MAX_SAVED_PLAYERS
    /\ Len(state.activeCompareIds) <= MAX_COMPARE_PLAYERS
    /\ Len(state.selectedStatKeys) <= MAX_STATS
    /\ state.activePlayerId = NoPlayer \/ SeqHas(state.savedPlayers, state.activePlayerId)
    /\ \A id \in SeqRange(state.activeCompareIds) : SeqHas(state.savedPlayers, id)

C37_RestoreYieldsSelectionState ==
    C37_Restored =>
        /\ activeMode \in Modes
        /\ \A m \in Modes : C37_SelectionState(stateByMode[m])

(***************************************************************************)
(* C38: when a stat checkbox has been toggled, the range checkbox has been *)
(* toggled or a mode switch has completed, and range mode is on, every key *)
(* in the selectedStatKeys of the active mode is a stat of the catalog     *)
(* with range_supported; and ticking a season-only stat in range mode      *)
(* leaves the selectedStatKeys of both modes as they were.                 *)
(***************************************************************************)
C38_RangeSupported(key) == key \in CatalogKeys /\ RangeSupportedFlag(key)

C38_Completed ==
    \/ \E key \in CatalogKeys : StatCheckboxChange(key)
    \/ RangeEnabledChange
    \/ /\ \/ \E mode \in Modes : ModeChange(mode)
          \/ \E t \in TaskIds : ConfigFetchDone(t, TRUE) \/ ConfigFetchDone(t, FALSE)
       /\ NoneSuspended'

C38_TicksSeasonOnly ==
    \E key \in CatalogKeys :
        /\ StatCheckboxChange(key)
        /\ rangeEnabled
        /\ key \notin statsEl.checked
        /\ ~RangeSupportedFlag(key)

C38_Step ==
    /\ (C38_Completed /\ rangeEnabled') =>
           \A key \in SeqRange(stateByMode'[activeMode'].selectedStatKeys) :
               C38_RangeSupported(key)
    /\ C38_TicksSeasonOnly =>
           \A m \in Modes :
               stateByMode'[m].selectedStatKeys = stateByMode[m].selectedStatKeys

C38_RangeModeKeepsRangeStats == [][C38_Step]_vars

(***************************************************************************)
(* C39: every entry of snapshotsByYear and of pitcherSnapshotsByYear holds *)
(* the file of its mode for the year it is stored under, every entry of    *)
(* rangeCache the rows the range endpoint answers for the mode, year,      *)
(* dates, statcast flag and players of its key, and every entry of         *)
(* leaderboardStatcastCache the rows answered for the mode, year and stat  *)
(* of its key, whatever the user changes while requests are in flight.     *)
(***************************************************************************)
C39_SnapshotsMatch ==
    \A stage \in Modes :
        \A year \in DOMAIN SnapshotCache(Data, stage) :
            LET players == SnapshotCache(Data, stage)[year].players
            IN  /\ players.file = SnapshotFile(stage)
                /\ players.year = year

C39_CacheEntriesMatchTheirKeys ==
    /\ C39_SnapshotsMatch
    /\ \A key \in DOMAIN rangeCache : rangeCache[key] = RangeRows(key)
    /\ \A key \in DOMAIN leaderboardStatcastCache :
           leaderboardStatcastCache[key] = StatcastRows(key)

\* the three caches hold entries of requests that were answered after the
\* user had gone to another year or another mode
C39_Witness ==
    /\ \E year \in DOMAIN snapshotsByYear : year # yearValue
    /\ \E key \in DOMAIN rangeCache : key[1] # activeMode \/ key[2] # yearValue
    /\ \E key \in DOMAIN leaderboardStatcastCache :
           key[1] # activeMode \/ key[2] # yearValue

(***************************************************************************)
(* C40: while init waits for the answer of chrome.storage.local.get no     *)
(* write to the storage has been issued, and when the answer arrives the   *)
(* restore leaves every change the user has made since the start as it is: *)
(* the mode, the range box and the selection of each mode.                 *)
(***************************************************************************)
C40_ReadPending ==
    \E t \in TaskIds : tasks[t].kind = "init" /\ tasks[t].stage = "storage"

C40_NoWriteBeforeRead == C40_ReadPending => lastStorage = NoAccess

C40_RestoreStep(t) ==
    StorageGetDone(t, "ok") =>
        /\ activeMode # FreshMem.mode => activeMode' = activeMode
        /\ rangeEnabled # FreshMem.rangeEnabled => rangeEnabled' = rangeEnabled
        /\ \A m \in Modes :
               serializeModeState(stateByMode[m]) # serializeModeState(FreshMem.states[m])
                   => serializeModeState(stateByMode'[m]) = serializeModeState(stateByMode[m])

C40_RestoreComesFirst ==
    /\ []C40_NoWriteBeforeRead
    /\ [][\A t \in TaskIds : C40_RestoreStep(t)]_vars

====
